---- MODULE Spec2Model ----
(***************************************************************************)
(* VODsync: the timeline reconciliation engine (src/src/lib/logtime.ts),   *)
(* the multi-clip session state of the App component and the selection of  *)
(* its ReviewWorkspace (src/src/lib/classColors.ts), the video player      *)
(* (src/src/components/VideoPlayer.tsx), and fetchReport and               *)
(* fetchAbilitySummary of the report server (src/unnamed/part_003).        *)
(*                                                                         *)
(* Units.  The source computes in floating-point seconds obtained from     *)
(* integer milliseconds by /1000.  The model keeps every such quantity as  *)
(* an exact integer number of MILLISECONDS: a field that the source calls  *)
(* xSeconds holds 1000 times the source's value.  Values that the source   *)
(* keeps in whole seconds (the result of parseHhmmss) are multiplied by    *)
(* MsPerSecond where they meet a millisecond quantity.                     *)
(*                                                                         *)
(* Optional values (undefined / null / absent) are None == <<>>, a present *)
(* value v is Some(v) == <<v>>.                                            *)
(***************************************************************************)
EXTENDS Integers, Sequences, FiniteSets, TLC

VARIABLES
  inFights,        \* argument `fights` of buildBossFightRows
  inAnchor,        \* argument `vodStartSeconds` of buildBossFightRows (whole seconds)
  outRows,         \* None before the call, then Some([threw, rows])
  inEntries,       \* argument `entries` of buildVideoOptionsFromInputs
  outOptions,      \* its result
  inSeconds,       \* argument of formatHhmmss, in whole seconds
  inText,          \* argument of parseHhmmss
  outTime,         \* the results of the two conversions and of their round trips
  inTable,         \* the fightIDs given to fetchAbilitySummary and the entries of
                   \* the table its query returns
  outAbilities,    \* None before the call, then Some(its result)
  \* the state of App (classColors.ts:87-102)
  phase,               \* "landing" | "review"
  status,              \* status.kind: "idle" | "info" | "success" | "error"
  statusMessage,       \* status.message, without the counts and details it quotes
  loading,
  fights,              \* FightRow[]
  reportMeta,          \* None, or Some(title)
  videoOptions,        \* VideoOption[]
  activeVideoIndex,    \* 0-based, as in the source
  playerSeekRevision,
  playerStartSeconds,  \* in milliseconds
  liveMode,
  activeReportId,      \* None, or Some(id)
  vodOffsetSeconds,    \* None, or Some(whole seconds)
  currentVideoTime,    \* in milliseconds
  selectedFight,       \* the state of ReviewWorkspace: None, or Some([row, stale]),
                       \* a row object and whether it belongs to an array that
                       \* `fights` no longer is
  submitPending,       \* the handleSubmit call suspended at `await fetchReportFights`
  refreshInFlight,     \* the live refresh callbacks suspended at their await, in
                       \* the order they started, each with the activeReportId and
                       \* vodOffsetSeconds of its closure and, as history, whether
                       \* the rows on display are the result of a refresh that
                       \* started after it (overtaken)
  \* the refs of the mounted VideoPlayer and the DOM / YouTube objects they hold
  player,
  youtubeApi,          \* the iframe API script: "none" | "loading" | "ready"
  crashed,             \* an effect threw: React has unmounted the tree
  \* the report server (src/unnamed/part_003)
  tokenCache,          \* tokenCache.accessToken while it is valid: None, or Some(token)
  fetchCall,           \* the fetchReport call under way or finished: its position,
                       \* its locals, the requests it has issued and its outcome
  fetchCalls,          \* how many fetchReport calls have been started
  lastSwap             \* history: Some([by, startSeconds, globalTime]) from a clip
                       \* swap until the position is next moved by playback or by a
                       \* jump: the handler that swapped, the playerStartSeconds it
                       \* set and the global time it started from

timeVars == <<inSeconds, inText, outTime>>

abilityVars == <<inTable, outAbilities>>

pureVars == <<inFights, inAnchor, outRows, inEntries, outOptions, timeVars, abilityVars>>

appVars == <<phase, status, statusMessage, loading, fights, reportMeta, videoOptions, activeVideoIndex,
             playerSeekRevision, playerStartSeconds, liveMode, activeReportId,
             vodOffsetSeconds, currentVideoTime, selectedFight, submitPending,
             refreshInFlight, player, youtubeApi, crashed, lastSwap>>

serverVars == <<tokenCache, fetchCall, fetchCalls>>

vars == <<pureVars, appVars, serverVars>>

-----------------------------------------------------------------------------
(* Generic helpers                                                         *)

None == <<>>

Some(v) == <<v>>

IsSome(o) == o # <<>>

Val(o) == o[1]

Max(a, b) == IF a >= b THEN a ELSE b

Min(a, b) == IF a <= b THEN a ELSE b

\* e placed into the sorted sequence s after every element whose key f is <= e's
RECURSIVE Insert(_, _, _)
Insert(s, e, f) ==
  IF s = <<>> THEN <<e>>
  ELSE IF s[Len(s)][f] <= e[f] THEN Append(s, e)
  ELSE Append(Insert(SubSeq(s, 1, Len(s) - 1), e, f), s[Len(s)])

\* Array.prototype.sort((a, b) => a.f - b.f): ascending by f, stable
RECURSIVE SortBy(_, _)
SortBy(s, f) ==
  IF s = <<>> THEN <<>>
  ELSE Insert(SortBy(SubSeq(s, 1, Len(s) - 1), f), s[Len(s)], f)

\* Array.prototype.filter
RECURSIVE SelectSeqIdx(_, _)
SelectSeqIdx(s, keep) ==
  IF s = <<>> THEN <<>>
  ELSE LET rest == SelectSeqIdx(SubSeq(s, 1, Len(s) - 1), keep)
       IN IF Len(s) \in keep THEN Append(rest, s[Len(s)]) ELSE rest

MsPerSecond == 1000

-----------------------------------------------------------------------------
(* src/src/lib/logtime.ts: phase reconstruction                            *)

\* label.match(/intermission\s+(\d+)/i) over the label vocabulary of the model:
\* the digits captured, or None when the pattern does not match
IntermissionDigits(label) ==
  CASE label = "Intermission 1" -> Some("1")
    [] label = "intermission  2" -> Some("2")
    [] label = "Mythic Intermission 3 (adds)" -> Some("3")
    [] OTHER -> None

normalizePhaseLabel(label) ==
  IF IsSome(IntermissionDigits(label))
  THEN "I" \o Val(IntermissionDigits(label))
  ELSE label

\* String.prototype.trim over the label vocabulary
Trim(label) ==
  CASE label = " I4 " -> "I4"
    [] label = "  " -> ""
    [] OTHER -> label

\* /^I\d+$/i.test(s) over the label vocabulary
IsILabel(s) == s \in {"I1", "I2", "I3", "I4", "i5"}

\* label is an optional string
labelIndicatesIntermission(label) ==
  IF ~IsSome(label) \/ Val(label) = "" THEN FALSE
  ELSE IsILabel(Trim(normalizePhaseLabel(Val(label))))

\* value is finite here (JSON carries neither NaN nor Infinity)
clampSeconds(value, maxSeconds) == Max(0, Min(maxSeconds, value))

\* the entry of the metadata map for an optional phase id, or None
MetadataFor(phaseId, phaseMetadata) ==
  IF IsSome(phaseId) /\ Val(phaseId) \in DOMAIN phaseMetadata
  THEN Some(phaseMetadata[Val(phaseId)])
  ELSE None

\* None when the entry carries no usable time (it is filtered out)
normalizeTransition(value, fightStartMs, phaseMetadata) ==
  LET raw == IF IsSome(value.startTime) THEN value.startTime ELSE value.time
      label0 == IF IsSome(value.label) THEN Some(normalizePhaseLabel(Val(value.label))) ELSE None
      phaseId == IF IsSome(value.phase) THEN value.phase ELSE value.id
      isIntermission0 == IsSome(value.isIntermission) /\ Val(value.isIntermission)
      isAbsolute == IsSome(value.startTime)
      metadata == MetadataFor(phaseId, phaseMetadata)
  IN IF ~IsSome(raw) THEN None
     ELSE LET relativeMs == IF isAbsolute THEN Val(raw) - fightStartMs ELSE Val(raw)
              label == IF (~IsSome(label0) \/ Val(label0) = "")
                          /\ IsSome(metadata) /\ IsSome(Val(metadata).name)
                       THEN Some(Trim(Val(Val(metadata).name)))
                       ELSE label0
              isIntermission ==
                 isIntermission0 \/ (IsSome(metadata) /\ Val(metadata).isIntermission)
          IN Some([seconds |-> Max(0, relativeMs),
                   label |-> label,
                   isIntermission |-> isIntermission,
                   phaseId |-> phaseId])

RECURSIVE NormalizeAll(_, _, _)
NormalizeAll(raw, fightStartMs, phaseMetadata) ==
  IF raw = <<>> THEN <<>>
  ELSE LET rest == NormalizeAll(SubSeq(raw, 1, Len(raw) - 1), fightStartMs, phaseMetadata)
           e == normalizeTransition(raw[Len(raw)], fightStartMs, phaseMetadata)
       IN IF IsSome(e) THEN Append(rest, Val(e)) ELSE rest

\* A mutant of MarkerFlag: the marker carries the resolved intermission flag
MarkerFlag_Resolved(entry, isIntermissionEntry) == isIntermissionEntry

\* the isIntermission property the marker is given (logtime.ts:312)
MarkerFlag(entry, isIntermissionEntry) == entry.isIntermission

\* A mutant of SegmentEnd: the segment is closed at the raw transition time
SegmentEnd_Raw(entry, durationSeconds) == entry.seconds

\* where the transition closes the running segment (logtime.ts:284-286)
SegmentEnd(entry, durationSeconds) ==
  Min(durationSeconds, clampSeconds(entry.seconds, durationSeconds))

\* A mutant of MarkerLabel: one counter numbers phases and intermissions alike
MarkerLabel_OneCounter(isIntermissionEntry, intermissionCount, phaseCount) ==
  IF isIntermissionEntry THEN "I" \o ToString(intermissionCount + phaseCount - 1)
  ELSE "P" \o ToString(intermissionCount + phaseCount)

\* the label of the marker, from the counters as they stand after
\* `intermissionCount += 1` and before `phaseCount += 1` (logtime.ts:299-306)
MarkerLabel(isIntermissionEntry, intermissionCount, phaseCount) ==
  IF isIntermissionEntry THEN "I" \o ToString(intermissionCount)
  ELSE "P" \o ToString(phaseCount)

\* the body of transitions.forEach (logtime.ts:283-319)
PhaseStep(st, entry, durationSeconds) ==
  LET transitionSeconds == clampSeconds(entry.seconds, durationSeconds)
      start == Max(0, st.lastStart)
      end == SegmentEnd(entry, durationSeconds)
      segments ==
        IF end > start
        THEN Append(st.segments,
               [label |-> IF st.currentLabel # "" THEN st.currentLabel
                          ELSE "P" \o ToString(Len(st.segments) + 1),
                startSeconds |-> start,
                endSeconds |-> end,
                isIntermission |-> Some(st.currentIsIntermission)])
        ELSE st.segments
      isIntermissionEntry ==
        entry.isIntermission \/ labelIndicatesIntermission(entry.label)
      intermissionCount ==
        IF isIntermissionEntry THEN st.intermissionCount + 1 ELSE st.intermissionCount
      markerLabel == MarkerLabel(isIntermissionEntry, intermissionCount, st.phaseCount)
      phaseCount == IF isIntermissionEntry THEN st.phaseCount ELSE st.phaseCount + 1
      markers ==
        IF transitionSeconds >= 0 /\ transitionSeconds <= durationSeconds
        THEN Append(st.markers,
               [label |-> markerLabel,
                offsetSeconds |-> transitionSeconds,
                isIntermission |-> MarkerFlag(entry, isIntermissionEntry)])
        ELSE st.markers
  IN [segments |-> segments,
      markers |-> markers,
      lastStart |-> transitionSeconds,
      currentLabel |-> markerLabel,
      currentIsIntermission |-> isIntermissionEntry,
      phaseCount |-> phaseCount,
      intermissionCount |-> intermissionCount]

RECURSIVE PhaseWalk(_, _)
PhaseWalk(transitions, durationSeconds) ==
  IF transitions = <<>>
  THEN [segments |-> <<>>, markers |-> <<>>, lastStart |-> 0, currentLabel |-> "P1",
        currentIsIntermission |-> FALSE, phaseCount |-> 1, intermissionCount |-> 0]
  ELSE PhaseStep(PhaseWalk(SubSeq(transitions, 1, Len(transitions) - 1), durationSeconds),
                 transitions[Len(transitions)], durationSeconds)

\* A mutant of WholeFightSegment: the single segment is P1 for a kill too
WholeFightSegment_AlwaysP1(fight, durationSeconds) ==
  [label |-> "P1",
   startSeconds |-> 0,
   endSeconds |-> durationSeconds,
   isIntermission |-> None]

\* A mutant of SortTransitions: the transitions are walked in input order
SortTransitions_Unsorted(transitions) == transitions

\* .sort((a, b) => a.seconds - b.seconds) (logtime.ts:273)
SortTransitions(transitions) == SortBy(transitions, "seconds")

\* the single whole-fight segment (logtime.ts:256-265 and 330-336)
WholeFightSegment(fight, durationSeconds) ==
  [label |-> IF fight.kill THEN "Kill" ELSE "P1",
   startSeconds |-> 0,
   endSeconds |-> durationSeconds,
   isIntermission |-> None]

\* A mutant of TrailingSegment: a kill keeps the last assigned label and state
TrailingSegment_LastLabel(fight, st, durationSeconds) ==
  [label |-> IF st.currentLabel # "" THEN st.currentLabel
             ELSE "P" \o ToString(Len(st.segments) + 1),
   startSeconds |-> Max(0, st.lastStart),
   endSeconds |-> durationSeconds,
   isIntermission |-> Some(st.currentIsIntermission)]

\* the segment pushed after the loop (logtime.ts:322-327)
TrailingSegment(fight, st, durationSeconds) ==
  [label |-> IF fight.kill THEN "Kill"
             ELSE IF st.currentLabel # "" THEN st.currentLabel
             ELSE "P" \o ToString(Len(st.segments) + 1),
   startSeconds |-> Max(0, st.lastStart),
   endSeconds |-> durationSeconds,
   isIntermission |-> Some(IF fight.kill THEN FALSE ELSE st.currentIsIntermission)]

buildPhaseSegmentsAndMarkers(fight, durationSeconds) ==
  LET raw == fight.phaseTransitions
  IN IF raw = <<>> \/ durationSeconds <= 0
     THEN [segments |-> <<WholeFightSegment(fight, durationSeconds)>>, markers |-> <<>>]
     ELSE LET transitions ==
                SortTransitions(NormalizeAll(raw, fight.startTime, fight.phaseMetadata))
              st == PhaseWalk(transitions, durationSeconds)
              closed ==
                IF st.lastStart < durationSeconds
                THEN Append(st.segments, TrailingSegment(fight, st, durationSeconds))
                ELSE st.segments
          IN [segments |-> IF closed = <<>>
                           THEN <<WholeFightSegment(fight, durationSeconds)>>
                           ELSE closed,
              markers |-> st.markers]

-----------------------------------------------------------------------------
(* src/src/lib/logtime.ts: death and bloodlust markers, boss percentage    *)

\* A mutant of MarkerClamp: the offset is not clamped to the fight
MarkerClamp_None(offsetMs, durationSeconds) == offsetMs

\* Math.max(0, Math.min(durationSeconds, offsetMs / 1000)) (logtime.ts:441, 460)
MarkerClamp(offsetMs, durationSeconds) == Max(0, Min(durationSeconds, offsetMs))

\* the .map and .filter of buildDeathMarkers (logtime.ts:437-449)
RECURSIVE DeathMap(_, _, _)
DeathMap(events, fight, durationSeconds) ==
  IF events = <<>> THEN <<>>
  ELSE LET rest == DeathMap(SubSeq(events, 1, Len(events) - 1), fight, durationSeconds)
           event == events[Len(events)]
       IN IF ~IsSome(event.timestamp) THEN rest
          ELSE Append(rest,
                 [player |-> IF IsSome(event.target) /\ Val(event.target) # ""
                             THEN Val(event.target) ELSE "Unknown",
                  offsetSeconds |->
                    MarkerClamp(Val(event.timestamp) - fight.startTime, durationSeconds)])

buildDeathMarkers(fight, durationSeconds) ==
  SortBy(DeathMap(fight.deaths, fight, durationSeconds), "offsetSeconds")

\* the .map and .filter of buildBloodlustMarkers (logtime.ts:456-470)
RECURSIVE BloodlustMap(_, _, _)
BloodlustMap(events, fight, durationSeconds) ==
  IF events = <<>> THEN <<>>
  ELSE LET rest == BloodlustMap(SubSeq(events, 1, Len(events) - 1), fight, durationSeconds)
           event == events[Len(events)]
       IN IF ~IsSome(event.timestamp) THEN rest
          ELSE Append(rest,
                 [caster |-> IF IsSome(event.source) /\ Val(event.source) # ""
                             THEN Val(event.source) ELSE "Unknown",
                  ability |-> IF IsSome(event.ability) /\ Val(event.ability) # ""
                              THEN Val(event.ability) ELSE "Bloodlust",
                  offsetSeconds |->
                    MarkerClamp(Val(event.timestamp) - fight.startTime, durationSeconds)])

buildBloodlustMarkers(fight, durationSeconds) ==
  SortBy(BloodlustMap(fight.bloodlusts, fight, durationSeconds), "offsetSeconds")

\* A mutant of extractBossPercentage: bossPercentage is tried first
extractBossPercentage_BossFirst(fight) ==
  IF IsSome(fight.bossPercentage) THEN fight.bossPercentage
  ELSE IF IsSome(fight.fightPercentage) THEN fight.fightPercentage
  ELSE None

\* the first of fightPercentage, bossPercentage that is a (finite) number
extractBossPercentage(fight) ==
  IF IsSome(fight.fightPercentage) THEN fight.fightPercentage
  ELSE IF IsSome(fight.bossPercentage) THEN fight.bossPercentage
  ELSE None

\* fight.kill ? null : fight.bossPercentage ?? fight.fightPercentage ?? null
\* (logtime.ts:238)
PhasePercentage(fight) ==
  IF fight.kill THEN None
  ELSE IF IsSome(fight.bossPercentage) THEN fight.bossPercentage
  ELSE fight.fightPercentage

\* the one coarse phase entry of a row (logtime.ts:227-241)
buildPhaseInfo(fight) ==
  LET number == IF IsSome(fight.lastPhase) THEN Max(1, Val(fight.lastPhase)) ELSE 1
      label == IF fight.kill THEN "Kill"
               ELSE IF IsSome(fight.lastPhase)
               THEN (IF fight.lastPhaseIsIntermission = Some(TRUE) THEN "I" ELSE "P")
                      \o ToString(number)
               ELSE "P1"
  IN <<[label |-> label, percentage |-> PhasePercentage(fight)]>>

-----------------------------------------------------------------------------
(* src/src/lib/logtime.ts: buildBossFightRows                              *)

\* fight.encounterID ?? 0
EncounterIdOf(fight) == IF IsSome(fight.encounterID) THEN Val(fight.encounterID) ELSE 0

\* A mutant of IsBossFight: every fight with an encounterID counts
IsBossFight_AnyId(fight) == IsSome(fight.encounterID)

\* the filter predicate (logtime.ts:191)
IsBossFight(fight) == EncounterIdOf(fight) > 0

\* A mutant of SortFights: the boss fights stay in input order
SortFights_Unsorted(bossFights) == bossFights

\* bossFights.sort((a, b) => a.startTime - b.startTime) (logtime.ts:195)
SortFights(bossFights) == SortBy(bossFights, "startTime")

\* A mutant of VideoSeconds: the offset is taken from the anchor alone
VideoSeconds_NoBase(fight, vodStartSeconds, firstStartMs) ==
  Max(0, fight.startTime + vodStartSeconds * MsPerSecond)

\* videoSeconds of one fight (logtime.ts:196-201), in milliseconds
VideoSeconds(fight, vodStartSeconds, firstStartMs) ==
  LET videoOffset == vodStartSeconds * MsPerSecond - firstStartMs
  IN Max(0, fight.startTime + videoOffset)

\* the row of the fight at position index (logtime.ts:199-224)
FightRow(fight, index, vodStartSeconds, firstStartMs) ==
  LET videoSeconds == VideoSeconds(fight, vodStartSeconds, firstStartMs)
      duration == Max(0, fight.endTime - fight.startTime)
      bossHpLeft == extractBossPercentage(fight)
      bossProgress == IF IsSome(bossHpLeft) THEN Some(Max(0, 100 - Val(bossHpLeft))) ELSE None
      sm == buildPhaseSegmentsAndMarkers(fight, duration)
  IN [pull |-> index,
      bossName |-> IF fight.name # "" THEN fight.name ELSE "Unknown Boss",
      kill |-> fight.kill,
      result |-> IF fight.kill THEN "KILL" ELSE "Wipe",
      videoSeconds |-> videoSeconds,
      bossHpLeft |-> bossHpLeft,
      bossProgress |-> bossProgress,
      durationSeconds |-> duration,
      phases |-> buildPhaseInfo(fight),
      phaseSegments |-> sm.segments,
      phaseMarkers |-> sm.markers,
      deaths |-> buildDeathMarkers(fight, duration),
      bloodlusts |-> buildBloodlustMarkers(fight, duration)]

\* A mutant of FirstStart: the start of the latest boss fight
FirstStart_Latest(bossFights) == bossFights[Len(bossFights)].startTime

\* bossFights[0].startTime, the base of the video offset (logtime.ts:196), in
\* milliseconds
FirstStart(bossFights) == bossFights[1].startTime

\* threw is TRUE when the function throws "Report contains no boss fights."
\* (logtime.ts:187-225)
buildBossFightRows(rawFights, vodStartSeconds) ==
  LET bossFights0 == SelectSeqIdx(rawFights,
                                  {i \in 1..Len(rawFights) : IsBossFight(rawFights[i])})
  IN IF bossFights0 = <<>> THEN [threw |-> TRUE, rows |-> <<>>]
     ELSE LET bossFights == SortFights(bossFights0)
              firstStartMs == FirstStart(bossFights)
          IN [threw |-> FALSE,
              rows |-> [index \in 1..Len(bossFights) |->
                          FightRow(bossFights[index], index, vodStartSeconds, firstStartMs)]]

-----------------------------------------------------------------------------
(* Inputs of the pure-function specifications                              *)

MaxFights == 3

MaxTransitions == 3

MaxEvents == 2

SeqsUpTo(S, n) == UNION {[1..k -> S] : k \in 0..n}

\* fight ids are unique in a report: the fight at position i has id i
WithIds(s) == [i \in DOMAIN s |-> [s[i] EXCEPT !.id = i]]

\* phase metadata of the encounter: phase 1 is a stage, phase 2 an intermission
EncounterMetadata ==
  (1 :> [id |-> 1, name |-> Some("Stage One"), isIntermission |-> FALSE]) @@
  (2 :> [id |-> 2, name |-> None, isIntermission |-> TRUE])

BaseFight ==
  [id |-> 1, name |-> "A", encounterID |-> Some(7), startTime |-> 1000, endTime |-> 41000,
   kill |-> FALSE, bossPercentage |-> None, fightPercentage |-> None,
   lastPhase |-> None, lastPhaseIsIntermission |-> None,
   phaseTransitions |-> <<>>, deaths |-> <<>>, bloodlusts |-> <<>>,
   phaseMetadata |-> EncounterMetadata]

BaseTransition ==
  [startTime |-> None, time |-> None, label |-> None, isIntermission |-> None,
   phase |-> None, id |-> None]

\* fight lists: boss and trash fights, unsorted, with shared start times
RowFightPool ==
  {[BaseFight EXCEPT !.name = n, !.encounterID = e, !.startTime = s, !.endTime = s + 1500] :
     n \in {"", "A"}, e \in {None, Some(0), Some(7)}, s \in {0, 1000, 2500}}

RowInputs(maxFights) == {WithIds(s) : s \in SeqsUpTo(RowFightPool, maxFights)}

\* transitions: before the start, inside, at the end and after the end of a fight
\* that runs from 1000 to 41000; identified as intermission by flag, by metadata,
\* by label only, or not at all; without a time; with a fight-relative time
TransitionPool ==
  {[BaseTransition EXCEPT !.startTime = Some(t), !.isIntermission = k[1], !.id = k[2],
                          !.label = k[3]] :
     t \in {0, 11000, 41000, 51000},
     k \in {<<None, Some(1), None>>, <<Some(TRUE), None, None>>,
            <<Some(FALSE), Some(2), None>>, <<None, None, Some("Intermission 1")>>}}
  \cup {BaseTransition, [BaseTransition EXCEPT !.time = Some(30000), !.label = Some("Stage Two")]}

PhaseInputs(maxTransitions) ==
  {<<[BaseFight EXCEPT !.phaseTransitions = tr, !.kill = kd[1], !.endTime = 1000 + kd[2]]>> :
     tr \in SeqsUpTo(TransitionPool, maxTransitions),
     kd \in {<<FALSE, 40000>>, <<TRUE, 40000>>, <<FALSE, 0>>}}
  \cup
  \* kills that end when they start, or before
  {<<[BaseFight EXCEPT !.phaseTransitions = tr, !.kill = TRUE, !.endTime = e]>> :
     tr \in SeqsUpTo(TransitionPool, 1), e \in {1000, 500}}

\* death and bloodlust events before, inside and after the fight, and without a time
DeathPool ==
  {[timestamp |-> t, target |-> Some("Ann")] : t \in {None, Some(500), Some(3000), Some(2000), Some(9000)}}

BloodlustPool ==
  {[timestamp |-> t, source |-> Some("Bo"), ability |-> None] :
     t \in {None, Some(0), Some(4500), Some(1500), Some(6000)}}

MarkerInputs(maxEvents) ==
  {<<[BaseFight EXCEPT !.deaths = d, !.bloodlusts = b, !.endTime = e]>> :
     d \in SeqsUpTo(DeathPool, maxEvents), b \in SeqsUpTo(BloodlustPool, maxEvents),
     e \in {5000, 1000, 400}}

\* remaining-health percentages: absent, at both ends of 0..100, inside, and
\* above 100 (the model keeps whole percents)
PercentPool == {None, Some(0), Some(13), Some(87), Some(100), Some(150)}

\* kills and wipes with each pair of percentages and a last phase that is
\* absent, zero, or a second phase or intermission
PercentInputs ==
  {<<[BaseFight EXCEPT !.kill = k, !.fightPercentage = fp, !.bossPercentage = bp,
                       !.lastPhase = lp[1], !.lastPhaseIsIntermission = lp[2]]>> :
     k \in BOOLEAN, fp \in PercentPool, bp \in PercentPool,
     lp \in {<<None, None>>, <<Some(0), Some(FALSE)>>, <<Some(2), None>>, <<Some(2), Some(TRUE)>>}}

-----------------------------------------------------------------------------
(* The initial state of App and of the player (classColors.ts:87-102,      *)
(* VideoPlayer.tsx:26-30)                                                  *)

\* the refs of a VideoPlayer that has just been created: no <video> element, no
\* YouTube player, no pending seek, no listener, no YouTube continuation
InitialPlayer ==
  [htmlVideoRef |-> None,
   htmlMetadataListener |-> None,
   youtubePlayerRef |-> None,
   youtubeThen |-> None,
   pendingSeekRef |-> None]

\* no timestamp conversion is under way
TimeIdle ==
  /\ inSeconds = 0
  /\ inText = <<>>
  /\ outTime = None

AbilityIdle ==
  /\ inTable = [fightIDs |-> <<>>, entries |-> <<>>]
  /\ outAbilities = None

\* no fetchReport call has been made and no access token is cached
NoCall ==
  [pc |-> "idle",
   reportId |-> "",
   requests |-> <<>>,
   data |-> None,
   report |-> None,
   deathMap |-> <<>>,
   bloodlustMap |-> <<>>,
   result |-> None]

ServerIdle ==
  /\ tokenCache = None
  /\ fetchCall = NoCall
  /\ fetchCalls = 0

AppInitial ==
  /\ phase = "landing"
  /\ status = "idle"
  /\ statusMessage = ""
  /\ loading = FALSE
  /\ fights = <<>>
  /\ reportMeta = None
  /\ videoOptions = <<>>
  /\ activeVideoIndex = 0
  /\ playerSeekRevision = 0
  /\ playerStartSeconds = 0
  /\ liveMode = FALSE
  /\ activeReportId = None
  /\ vodOffsetSeconds = None
  /\ currentVideoTime = 0
  /\ selectedFight = None
  /\ submitPending = None
  /\ refreshInFlight = <<>>
  /\ player = InitialPlayer
  /\ youtubeApi = "none"
  /\ crashed = FALSE
  /\ lastSwap = None

-----------------------------------------------------------------------------
(* buildBossFightRows applied to its inputs: SpecRows over fight lists,    *)
(* SpecPhase over the phase transitions of one fight, SpecMarkers over the *)
(* death and bloodlust events of one fight                                 *)

InitRows ==
  /\ AppInitial
  /\ TimeIdle
  /\ AbilityIdle
  /\ ServerIdle
  /\ inFights \in RowInputs(MaxFights)
  /\ inAnchor \in {0, 60}
  /\ outRows = None
  /\ inEntries = <<>>
  /\ outOptions = None

InitPhase ==
  /\ AppInitial
  /\ TimeIdle
  /\ AbilityIdle
  /\ ServerIdle
  /\ inFights \in PhaseInputs(MaxTransitions)
  /\ inAnchor = 60
  /\ outRows = None
  /\ inEntries = <<>>
  /\ outOptions = None

InitPercent ==
  /\ AppInitial
  /\ TimeIdle
  /\ AbilityIdle
  /\ ServerIdle
  /\ inFights \in PercentInputs
  /\ inAnchor = 60
  /\ outRows = None
  /\ inEntries = <<>>
  /\ outOptions = None

InitMarkers ==
  /\ AppInitial
  /\ TimeIdle
  /\ AbilityIdle
  /\ ServerIdle
  /\ inFights \in MarkerInputs(MaxEvents)
  /\ inAnchor = 60
  /\ outRows = None
  /\ inEntries = <<>>
  /\ outOptions = None

BuildRows ==
  /\ outRows = None
  /\ outRows' = Some(buildBossFightRows(inFights, inAnchor))
  /\ UNCHANGED <<inFights, inAnchor, inEntries, outOptions, timeVars, abilityVars, appVars,
                 serverVars>>

NextRows == BuildRows

SpecRows == InitRows /\ [][NextRows]_vars

SpecPhase == InitPhase /\ [][NextRows]_vars

SpecMarkers == InitMarkers /\ [][NextRows]_vars

SpecPercent == InitPercent /\ [][NextRows]_vars

-----------------------------------------------------------------------------
(* Properties of buildBossFightRows                                        *)

Built == outRows # None

Rows == Val(outRows).rows

\* the positions of the input fights that are boss fights (encounterID > 0)
BossIdx == {i \in DOMAIN inFights :
              IsSome(inFights[i].encounterID) /\ Val(inFights[i].encounterID) > 0}

\* the start time of the i-th boss fight in chronological order: the value v with
\* fewer than i boss fights before it and at least i boss fights at or before it
NthStart(i) ==
  CHOOSE v \in {inFights[j].startTime : j \in BossIdx} :
    /\ Cardinality({j \in BossIdx : inFights[j].startTime < v}) < i
    /\ Cardinality({j \in BossIdx : inFights[j].startTime <= v}) >= i

Ascending(s, f) == \A i, j \in DOMAIN s : i < j => s[i][f] <= s[j][f]

\* C1: when the input holds a boss fight, buildBossFightRows returns one row per
\* fight with encounterID > 0 and none for the others, the pull numbers are 1..n
\* in row order, and the rows ascend in videoSeconds.
C1_OneRowPerBossFight ==
  (Built /\ BossIdx # {}) =>
     /\ ~Val(outRows).threw
     /\ Len(Rows) = Cardinality(BossIdx)
     /\ \A i \in DOMAIN Rows : Rows[i].pull = i
     /\ Ascending(Rows, "videoSeconds")

\* C1 witness: three fights, one of them trash, the two boss fights given latest first
C1_Witness ==
  /\ Built
  /\ Len(inFights) = 3
  /\ BossIdx = {1, 3}
  /\ inFights[1].startTime > inFights[3].startTime
  /\ inAnchor = 60
  /\ Len(Rows) = 2

\* the input fights rearranged by the permutation p of their positions
Permuted(p) == [i \in DOMAIN inFights |-> inFights[p[i]]]

InputOrders == {p \in [DOMAIN inFights -> DOMAIN inFights] :
                   \A i, j \in DOMAIN inFights : p[i] = p[j] => i = j}

\* what C2 compares: pull number, boss name, videoSeconds and duration of each row
RowKey(res) ==
  [threw |-> res.threw,
   rows |-> [i \in DOMAIN res.rows |->
               [pull |-> res.rows[i].pull, bossName |-> res.rows[i].bossName,
                videoSeconds |-> res.rows[i].videoSeconds,
                durationSeconds |-> res.rows[i].durationSeconds]]]

\* C2: the rows do not depend on the order of the input fights: every permutation
\* of the input list, fights sharing a startTime included, gives rows identical in
\* pull number, boss name, videoSeconds and duration.
C2_OrderIndependent ==
  Built => \A p \in InputOrders :
              RowKey(buildBossFightRows(Permuted(p), inAnchor)) = RowKey(Val(outRows))

\* C3: for a non-negative anchor, row i lies at anchor + (startTime_i - startTime_first)
\* on the global clock, startTime_i being the i-th smallest boss start time: pull 1
\* is at the anchor and distances between pulls are those of the log.
C3_AnchoredAtFirstPull ==
  (Built /\ BossIdx # {} /\ inAnchor >= 0) =>
     /\ Len(Rows) = Cardinality(BossIdx)
     /\ \A i \in DOMAIN Rows :
          Rows[i].videoSeconds = inAnchor * 1000 + (NthStart(i) - NthStart(1))
     /\ Rows[1].videoSeconds = inAnchor * 1000

\* C3 witness: a first pull that starts after the report's zero, a later pull given
\* first in the input, and a non-zero anchor
C3_Witness ==
  /\ Built
  /\ inAnchor = 60
  /\ BossIdx = {1, 2}
  /\ inFights[1].startTime = 2500
  /\ inFights[2].startTime = 1000
  /\ Rows[2].videoSeconds = 61500

\* C4: the phase segments of every row partition [0, durationSeconds]: the first
\* starts at 0, the last ends at durationSeconds, each ends where the next starts.
C4_SegmentsPartition ==
  Built => \A r \in DOMAIN Rows :
     LET segs == Rows[r].phaseSegments
     IN /\ Len(segs) >= 1
        /\ segs[1].startSeconds = 0
        /\ segs[Len(segs)].endSeconds = Rows[r].durationSeconds
        /\ \A i \in 1..(Len(segs) - 1) : segs[i].endSeconds = segs[i + 1].startSeconds
        /\ \A i \in DOMAIN segs : segs[i].startSeconds <= segs[i].endSeconds

\* C4 witness: three transitions given out of order, one after the end of the fight
\* and one before its start, cut the fight into two segments
C4_Witness ==
  /\ Built
  /\ Len(inFights[1].phaseTransitions) = 3
  /\ inFights[1].phaseTransitions[1].startTime = Some(51000)
  /\ inFights[1].phaseTransitions[2].startTime = Some(11000)
  /\ inFights[1].phaseTransitions[3].startTime = Some(0)
  /\ Len(Rows[1].phaseSegments) = 2

\* C5: every phase marker lies in [0, durationSeconds], the markers ascend in
\* offset, and each marker sits on a segment boundary of its fight.
C5_MarkersOnBoundaries ==
  Built => \A r \in DOMAIN Rows :
     LET segs == Rows[r].phaseSegments
         marks == Rows[r].phaseMarkers
     IN /\ \A m \in DOMAIN marks :
             /\ 0 <= marks[m].offsetSeconds
             /\ marks[m].offsetSeconds <= Rows[r].durationSeconds
             /\ \/ \E i \in DOMAIN segs : segs[i].startSeconds = marks[m].offsetSeconds
                \/ segs[Len(segs)].endSeconds = marks[m].offsetSeconds
        /\ Ascending(marks, "offsetSeconds")

\* C5 witness: markers at the start, inside and at the end of the fight, from
\* transitions given out of order
C5_Witness ==
  /\ Built
  /\ Len(inFights[1].phaseTransitions) = 3
  /\ inFights[1].phaseTransitions[1].startTime = Some(41000)
  /\ inFights[1].phaseTransitions[2].startTime = Some(0)
  /\ inFights[1].phaseTransitions[3].startTime = Some(11000)
  /\ Len(Rows[1].phaseMarkers) = 3
  /\ Rows[1].phaseMarkers[2].offsetSeconds = 10000

\* the number of events of the list that carry a timestamp
Timed(events) == Cardinality({i \in DOMAIN events : IsSome(events[i].timestamp)})

\* the markers made from events: in the fight, sorted, one per timed event, an
\* event before the fight start at 0 and an event after its end at the duration
MarkersClamped(marks, events, fight, duration) ==
  /\ Len(marks) = Timed(events)
  /\ \A m \in DOMAIN marks : 0 <= marks[m].offsetSeconds /\ marks[m].offsetSeconds <= duration
  /\ Ascending(marks, "offsetSeconds")
  /\ \A i \in DOMAIN events :
       IsSome(events[i].timestamp) =>
         LET t == Val(events[i].timestamp)
         IN /\ t <= fight.startTime => \E m \in DOMAIN marks : marks[m].offsetSeconds = 0
            /\ t >= fight.endTime => \E m \in DOMAIN marks : marks[m].offsetSeconds = duration
            /\ (fight.startTime <= t /\ t <= fight.endTime) =>
                  \E m \in DOMAIN marks : marks[m].offsetSeconds = t - fight.startTime

\* C6: every death marker and every bloodlust marker of a row lies in
\* [0, durationSeconds] (earlier events at 0, later ones at durationSeconds), and
\* both lists ascend in offsetSeconds.
C6_EventMarkersClamped ==
  (Built /\ Len(inFights) = 1 /\ BossIdx = {1}) =>
     /\ MarkersClamped(Rows[1].deaths, inFights[1].deaths, inFights[1],
                       Rows[1].durationSeconds)
     /\ MarkersClamped(Rows[1].bloodlusts, inFights[1].bloodlusts, inFights[1],
                       Rows[1].durationSeconds)

\* C6 witness: a death after the fight end listed before a death that precedes the
\* fight start, and bloodlusts likewise
C6_Witness ==
  /\ Built
  /\ inFights[1].endTime = 5000
  /\ Len(inFights[1].deaths) = 2
  /\ inFights[1].deaths[1].timestamp = Some(9000)
  /\ inFights[1].deaths[2].timestamp = Some(500)
  /\ Rows[1].deaths[1].offsetSeconds = 0
  /\ Rows[1].deaths[2].offsetSeconds = 4000
  /\ Len(inFights[1].bloodlusts) = 2
  /\ inFights[1].bloodlusts[1].timestamp = Some(6000)
  /\ inFights[1].bloodlusts[2].timestamp = Some(0)
  /\ Rows[1].bloodlusts[2].offsetSeconds = 4000

\* the transition is identified as an intermission: by its explicit flag, by the
\* metadata of its phase, or by a label reading "intermission N" or I<digits>
IdentifiedIntermission(tr, fight) ==
  \/ tr.isIntermission = Some(TRUE)
  \/ IsSome(tr.id) /\ Val(tr.id) \in DOMAIN fight.phaseMetadata
       /\ fight.phaseMetadata[Val(tr.id)].isIntermission
  \/ tr.label \in {Some("Intermission 1"), Some("I1")}

\* C7: the marker of a transition identified as an intermission (by flag, by
\* metadata or by label alone) carries isIntermission = TRUE; a fight with one such
\* transition has one marker, labelled I1 and flagged.
C7_IntermissionMarkerFlagged ==
  (Built /\ Len(inFights) = 1 /\ Len(inFights[1].phaseTransitions) = 1
         /\ Rows[1].durationSeconds > 0
         /\ IsSome(inFights[1].phaseTransitions[1].startTime)
         /\ IdentifiedIntermission(inFights[1].phaseTransitions[1], inFights[1])) =>
     /\ Len(Rows[1].phaseMarkers) = 1
     /\ Rows[1].phaseMarkers[1].label = "I1"
     /\ Rows[1].phaseMarkers[1].isIntermission = TRUE

\* the transitions of the fight that carry a time, in time order, with times
\* relative to the fight start
TimeSorted(fight) ==
  SortBy(NormalizeAll(fight.phaseTransitions, fight.startTime, fight.phaseMetadata), "seconds")

\* the transition counts as an intermission
IntermissionEntry(entry) == entry.isIntermission \/ labelIndicatesIntermission(entry.label)

\* I{k} for the k-th intermission and P{k} for the k-th other transition of ts
SequentialLabel(ts, i) ==
  LET alike == {j \in 1..i : IntermissionEntry(ts[j]) = IntermissionEntry(ts[i])}
  IN (IF IntermissionEntry(ts[i]) THEN "I" ELSE "P") \o ToString(Cardinality(alike))

\* where transition i of ts falls in a fight of the given duration
FallsAt(ts, i, duration) == Max(0, Min(duration, ts[i].seconds))

\* segment s of the row begins at transition i: it starts where the transition
\* falls, and no later transition falls at the same place
BeginsAt(segs, s, ts, i, duration) ==
  /\ segs[s].startSeconds = FallsAt(ts, i, duration)
  /\ segs[s].endSeconds > segs[s].startSeconds
  /\ \A j \in (i + 1)..Len(ts) : FallsAt(ts, j, duration) > FallsAt(ts, i, duration)

\* a single fight with transitions and a positive duration has been built
PhasesBuilt ==
  /\ Built
  /\ Len(inFights) = 1
  /\ Len(Rows) = 1
  /\ Rows[1].durationSeconds > 0
  /\ inFights[1].phaseTransitions # <<>>

\* the markers of the row are labelled by the two counters
MarkersSequential ==
  LET ts == TimeSorted(inFights[1])
      marks == Rows[1].phaseMarkers
  IN /\ Len(marks) = Len(ts)
     /\ \A i \in DOMAIN ts : marks[i].label = SequentialLabel(ts, i)

\* C20 as stated: the k-th intermission transition of a fight, in time order, is
\* labelled I{k} and the k-th other transition P{k}, whatever its phase id and
\* label text, and every segment that begins at a transition carries the label
\* of that transition.
C20_SequentialLabels ==
  PhasesBuilt =>
    /\ MarkersSequential
    /\ LET ts == TimeSorted(inFights[1])
           segs == Rows[1].phaseSegments
       IN \A i \in DOMAIN ts : \A s \in DOMAIN segs :
            BeginsAt(segs, s, ts, i, Rows[1].durationSeconds) =>
              segs[s].label = SequentialLabel(ts, i)

\* C20 amended: the same, except that in a kill the segment that begins at the
\* last transition is labelled Kill instead of carrying that transition's label.
C20_SequentialLabelsUnlessKill ==
  PhasesBuilt =>
    /\ MarkersSequential
    /\ LET ts == TimeSorted(inFights[1])
           segs == Rows[1].phaseSegments
       IN \A i \in DOMAIN ts : \A s \in DOMAIN segs :
            BeginsAt(segs, s, ts, i, Rows[1].durationSeconds) =>
              segs[s].label = IF inFights[1].kill /\ i = Len(ts) THEN "Kill"
                              ELSE SequentialLabel(ts, i)

\* C20 witness: a kill whose transitions are given latest first: "Stage Two" at
\* 30 s, a transition of phase 1 at 10 s and one labelled "Intermission 1" at the
\* start; the markers are I1, P1, P2 and the segments I1, P1, Kill
C20_Witness ==
  /\ PhasesBuilt
  /\ inFights[1].kill
  /\ Len(inFights[1].phaseTransitions) = 3
  /\ inFights[1].phaseTransitions[1].label = Some("Stage Two")
  /\ inFights[1].phaseTransitions[2].id = Some(1)
  /\ inFights[1].phaseTransitions[2].startTime = Some(11000)
  /\ inFights[1].phaseTransitions[3].label = Some("Intermission 1")
  /\ inFights[1].phaseTransitions[3].startTime = Some(0)
  /\ [i \in 1..3 |-> Rows[1].phaseMarkers[i].label] = <<"I1", "P1", "P2">>
  /\ [i \in 1..3 |-> Rows[1].phaseSegments[i].label] = <<"I1", "P1", "Kill">>

\* where the last transition of ts falls, 0 when there is none
LastTransitionTime(ts, duration) ==
  IF ts = <<>> THEN 0 ELSE FallsAt(ts, Len(ts), duration)

\* a single fight with a positive duration has been built
OneFightBuilt ==
  /\ Built
  /\ Len(inFights) = 1
  /\ Len(Rows) = 1
  /\ Rows[1].durationSeconds > 0

\* C21: when the last transition time is below the duration, the final segment
\* runs from that time to durationSeconds; it is "Kill" and not an intermission
\* for a kill, and otherwise carries the last assigned label and intermission
\* state. So a kill of positive duration ends in a "Kill" segment unless a
\* transition lies at or beyond the fight end.
C21_TrailingSegment ==
  OneFightBuilt =>
    LET ts == TimeSorted(inFights[1])
        segs == Rows[1].phaseSegments
        duration == Rows[1].durationSeconds
        final == segs[Len(segs)]
    IN /\ LastTransitionTime(ts, duration) < duration =>
            /\ final.startSeconds = LastTransitionTime(ts, duration)
            /\ final.endSeconds = duration
            /\ inFights[1].kill => final.label = "Kill" /\ final.isIntermission # Some(TRUE)
            /\ (~inFights[1].kill /\ ts # <<>>) =>
                  /\ final.label = SequentialLabel(ts, Len(ts))
                  /\ final.isIntermission = Some(IntermissionEntry(ts[Len(ts)]))
            /\ (~inFights[1].kill /\ ts = <<>>) =>
                  /\ final.label = "P1"
                  /\ final.isIntermission # Some(TRUE)
       /\ (inFights[1].kill /\ \A i \in DOMAIN ts : ts[i].seconds < duration) =>
            final.label = "Kill"

\* C21 witness: a kill cut by an intermission at 10 s and a transition at 30 s:
\* the final segment runs from 30 s to 40 s and is labelled Kill
C21_Witness ==
  /\ OneFightBuilt
  /\ inFights[1].kill
  /\ Len(inFights[1].phaseTransitions) = 2
  /\ inFights[1].phaseTransitions[1].startTime = Some(11000)
  /\ inFights[1].phaseTransitions[1].isIntermission = Some(TRUE)
  /\ inFights[1].phaseTransitions[2].time = Some(30000)
  /\ Len(Rows[1].phaseSegments) = 3
  /\ Rows[1].phaseSegments[3].startSeconds = 30000
  /\ Rows[1].phaseSegments[3].endSeconds = 40000
  /\ Rows[1].phaseSegments[3].label = "Kill"
  /\ Rows[1].phaseSegments[3].isIntermission = Some(FALSE)

\* C22: a fight with no phase transitions, or with a duration <= 0 whatever its
\* transitions, has exactly one segment, from 0 to durationSeconds, labelled
\* "Kill" for a kill and "P1" otherwise, and no marker.
C22_SingleSegmentFallback ==
  (Built /\ Len(inFights) = 1 /\ Len(Rows) = 1
         /\ (inFights[1].phaseTransitions = <<>> \/ Rows[1].durationSeconds <= 0)) =>
     /\ Len(Rows[1].phaseSegments) = 1
     /\ Rows[1].phaseSegments[1].startSeconds = 0
     /\ Rows[1].phaseSegments[1].endSeconds = Rows[1].durationSeconds
     /\ Rows[1].phaseSegments[1].label = (IF inFights[1].kill THEN "Kill" ELSE "P1")
     /\ Rows[1].phaseMarkers = <<>>

\* C22 witness: a kill that ends before it starts, with an intermission
\* transition: one segment Kill from 0 to 0 and no marker
C22_Witness ==
  /\ Built
  /\ Len(inFights) = 1
  /\ inFights[1].kill
  /\ inFights[1].endTime < inFights[1].startTime
  /\ Len(inFights[1].phaseTransitions) = 1
  /\ inFights[1].phaseTransitions[1].isIntermission = Some(TRUE)
  /\ inFights[1].phaseTransitions[1].startTime = Some(11000)
  /\ Rows[1].durationSeconds = 0
  /\ Len(Rows[1].phaseSegments) = 1
  /\ Rows[1].phaseSegments[1].label = "Kill"
  /\ Rows[1].phaseMarkers = <<>>

\* the row of a single fight has been built
RowBuilt == Built /\ Len(inFights) = 1 /\ Len(Rows) = 1

\* C23: bossHpLeft is fightPercentage when that is a number, otherwise
\* bossPercentage when that is a number, otherwise absent; bossProgress is
\* present exactly when bossHpLeft is, and is 100 - bossHpLeft for every
\* percentage in 0..100.
C23_BossProgress ==
  RowBuilt =>
    LET fight == inFights[1]
        row == Rows[1]
    IN /\ row.bossHpLeft = (IF fight.fightPercentage # None THEN fight.fightPercentage
                            ELSE fight.bossPercentage)
       /\ (row.bossProgress # None) <=> (row.bossHpLeft # None)
       /\ (row.bossHpLeft # None /\ Val(row.bossHpLeft) \in 0..100) =>
            row.bossProgress = Some(100 - Val(row.bossHpLeft))

\* C23 witness: fightPercentage 13 and bossPercentage 87 give bossHpLeft 13 and
\* bossProgress 87
C23_Witness ==
  /\ RowBuilt
  /\ inFights[1].fightPercentage = Some(13)
  /\ inFights[1].bossPercentage = Some(87)
  /\ Rows[1].bossHpLeft = Some(13)
  /\ Rows[1].bossProgress = Some(87)

\* C27: no two adjacent phase segments of a row carry the same label; in
\* particular the first non-intermission transition after time 0 does not
\* produce a second "P1" segment.
C27_AdjacentLabelsDiffer ==
  OneFightBuilt =>
    LET segs == Rows[1].phaseSegments
    IN \A s \in 1..(Len(segs) - 1) : segs[s].label # segs[s + 1].label

\* the boss fights of the built list that are not among the positions prev
NewBossIdx(prev) == BossIdx \ prev

\* prev holds the positions of an earlier fight list of which the built list is a
\* refresh: it has a boss fight, and every boss fight outside it starts after
\* the latest boss fight in it
EarlierLists ==
  {prev \in SUBSET (DOMAIN inFights) :
     /\ prev \cap BossIdx # {}
     /\ \A n \in NewBossIdx(prev) : \A o \in prev \cap BossIdx :
          inFights[n].startTime > inFights[o].startTime}

\* C29: when the refreshed fight list is the previous boss fights plus new boss
\* fights that all start after the previously latest one, the rows built from it
\* with the same anchor give the old pulls the pull numbers and videoSeconds they
\* had, and the new pulls come after them.
C29_RefreshKeepsOldPulls ==
  Built =>
    \A prev \in EarlierLists :
      LET before == buildBossFightRows(SelectSeqIdx(inFights, prev), inAnchor).rows
      IN /\ Len(Rows) = Len(before) + Cardinality(NewBossIdx(prev))
         /\ \A i \in DOMAIN before :
              /\ Rows[i].pull = before[i].pull
              /\ Rows[i].videoSeconds = before[i].videoSeconds
              /\ Rows[i].bossName = before[i].bossName
         /\ \A i \in (Len(before) + 1)..Len(Rows) :
              /\ Rows[i].pull = i
              /\ Rows[i].videoSeconds > before[Len(before)].videoSeconds

\* C29 witness: the boss fights starting at 1000 and at 0 were built before; the
\* refresh lists a third boss fight, first in the list and latest in time, which
\* becomes pull 3
C29_Witness ==
  /\ Built
  /\ Len(inFights) = 3
  /\ inFights[1].encounterID = Some(7) /\ inFights[1].startTime = 2500
  /\ inFights[2].encounterID = Some(7) /\ inFights[2].startTime = 1000
  /\ inFights[3].encounterID = Some(7) /\ inFights[3].startTime = 0
  /\ {2, 3} \in EarlierLists
  /\ inAnchor = 60
  /\ [i \in 1..3 |-> Rows[i].pull] = <<1, 2, 3>>
  /\ [i \in 1..3 |-> Rows[i].videoSeconds] = <<60000, 61000, 62500>>

\* C26: for every wipe row the percentage of phases[0] equals bossHpLeft, also
\* when the fight carries both raw percentages with different values.
C26_PhasePercentageIsBossHpLeft ==
  (RowBuilt /\ ~inFights[1].kill) =>
    Rows[1].phases[1].percentage = Rows[1].bossHpLeft

-----------------------------------------------------------------------------
(* src/src/lib/logtime.ts: parseHhmmss.  A string is a sequence of          *)
(* one-character strings over the digits, ":", " ", "-" and "x" (any        *)
(* character that is not part of a number).                                 *)

DigitChars == <<"0", "1", "2", "3", "4", "5", "6", "7", "8", "9">>

IsDigit(c) == \E d \in 1..10 : DigitChars[d] = c

DigitVal(c) == (CHOOSE d \in 1..10 : DigitChars[d] = c) - 1

\* String.prototype.trim: leading and trailing blanks removed
RECURSIVE TrimStr(_)
TrimStr(str) ==
  IF str = <<>> THEN <<>>
  ELSE IF str[1] = " " THEN TrimStr(Tail(str))
  ELSE IF str[Len(str)] = " " THEN TrimStr(SubSeq(str, 1, Len(str) - 1))
  ELSE str

\* String.prototype.split(":"): the fields between the colons, at least one
RECURSIVE SplitColon(_)
SplitColon(str) ==
  IF \A i \in DOMAIN str : str[i] # ":" THEN <<str>>
  ELSE LET k == CHOOSE i \in DOMAIN str : str[i] = ":" /\ \A j \in 1..(i - 1) : str[j] # ":"
       IN <<SubSeq(str, 1, k - 1)>> \o SplitColon(SubSeq(str, k + 1, Len(str)))

\* the value of a string of digits
RECURSIVE DigitsValue(_)
DigitsValue(ds) ==
  IF ds = <<>> THEN 0
  ELSE 10 * DigitsValue(SubSeq(ds, 1, Len(ds) - 1)) + DigitVal(ds[Len(ds)])

\* Number(part) over the alphabet: blanks are trimmed, the empty string is 0,
\* an optional "-" and digits are a number, anything else is NaN
NumberOf(part) ==
  LET t == TrimStr(part)
      body == IF t # <<>> /\ t[1] = "-" THEN Tail(t) ELSE t
  IN IF t = <<>> THEN [nan |-> FALSE, v |-> 0]
     ELSE IF body # <<>> /\ \A i \in DOMAIN body : IsDigit(body[i])
     THEN [nan |-> FALSE, v |-> IF t[1] = "-" THEN 0 - DigitsValue(body) ELSE DigitsValue(body)]
     ELSE [nan |-> TRUE, v |-> 0]

\* threw is TRUE when parseHhmmss throws; value is in whole seconds
parseHhmmss(value) ==
  LET parts == SplitColon(TrimStr(value))
  IN IF Len(parts) # 3 THEN [threw |-> TRUE, value |-> 0]
     ELSE LET h == NumberOf(parts[1])
              m == NumberOf(parts[2])
              sec == NumberOf(parts[3])
          IN IF h.nan \/ m.nan \/ sec.nan THEN [threw |-> TRUE, value |-> 0]
             ELSE IF h.v < 0 \/ m.v < 0 \/ m.v >= 60 \/ sec.v < 0 \/ sec.v >= 60
             THEN [threw |-> TRUE, value |-> 0]
             ELSE [threw |-> FALSE, value |-> h.v * 3600 + m.v * 60 + sec.v]

-----------------------------------------------------------------------------
(* src/src/lib/video.ts: detectVideoSource over the URLs of the model      *)

UrlYoutubeA == "https://youtu.be/aaaaaaaaaaa"

UrlYoutubeB == "https://www.youtube.com/watch?v=bbbbbbbbbbb"

UrlMp4A == "https://cdn.example/a.mp4"

UrlMp4B == "https://cdn.example/b.webm"

UrlOther == "https://example.com/page"

\* entry.url.trim()
TrimUrl(url) == IF url = "   " THEN "" ELSE url

\* None for a URL that is neither YouTube nor a direct media file
detectVideoSource(rawUrl) ==
  CASE TrimUrl(rawUrl) = UrlYoutubeA -> Some([kind |-> "youtube", videoId |-> "aaaaaaaaaaa"])
    [] TrimUrl(rawUrl) = UrlYoutubeB -> Some([kind |-> "youtube", videoId |-> "bbbbbbbbbbb"])
    [] TrimUrl(rawUrl) = UrlMp4A -> Some([kind |-> "html5", url |-> UrlMp4A])
    [] TrimUrl(rawUrl) = UrlMp4B -> Some([kind |-> "html5", url |-> UrlMp4B])
    [] OTHER -> None

-----------------------------------------------------------------------------
(* src/src/lib/classColors.ts: buildVideoOptionsFromInputs                 *)

DefaultFirstPull == <<"0", "0", ":", "0", "0", ":", "0", "0">>

\* (entry.firstPull || "00:00:00").trim() || "00:00:00"
FirstPullText(entry) ==
  LET a == IF entry.firstPull = <<>> THEN DefaultFirstPull ELSE entry.firstPull
  IN IF TrimStr(a) = <<>> THEN DefaultFirstPull ELSE TrimStr(a)

\* the entries whose trimmed url is not empty, each with its index in the form
RECURSIVE TrimmedEntries(_)
TrimmedEntries(entries) ==
  IF entries = <<>> THEN <<>>
  ELSE LET rest == TrimmedEntries(SubSeq(entries, 1, Len(entries) - 1))
           entry == entries[Len(entries)]
       IN IF TrimUrl(entry.url) = "" THEN rest
          ELSE Append(rest, [index |-> Len(entries) - 1,
                             url |-> TrimUrl(entry.url),
                             firstPull |-> FirstPullText(entry),
                             label |-> entry.label])

\* the callback of trimmed.map: it throws on a bad timestamp or an unsupported URL
\* (the labels of the model are empty, so trim and toLowerCase leave them as they are)
ParseEntry(entry) ==
  LET parsed == parseHhmmss(entry.firstPull)
      source == detectVideoSource(entry.url)
  IN IF parsed.threw \/ ~IsSome(source) THEN [threw |-> TRUE]
     ELSE [threw |-> FALSE,
           url |-> entry.url,
           source |-> Val(source),
           firstPullSeconds |-> parsed.value,
           label |-> IF entry.label # "" THEN entry.label
                     ELSE "Video " \o ToString(entry.index + 1),
           characterName |-> IF entry.label # "" THEN Some(entry.label) ELSE None]

\* A mutant of SortClips: the clips stay in form order
SortClips_Unsorted(parsed) == parsed

\* parsed.sort((a, b) => a.firstPullSeconds - b.firstPullSeconds) (classColors.ts:1046)
SortClips(parsed) == SortBy(parsed, "firstPullSeconds")

\* A mutant of ClipBase: the firstPullSeconds of the last clip
ClipBase_Last(parsed) == parsed[Len(parsed)].firstPullSeconds

\* const base = parsed[0]?.firstPullSeconds ?? 0 (classColors.ts:1047), for a
\* list that is not empty
ClipBase(parsed) == parsed[1].firstPullSeconds

\* threw is TRUE when the function throws; options is [] when no entry has a url
buildVideoOptionsFromInputs(entries) ==
  LET trimmed == TrimmedEntries(entries)
      parsed0 == [i \in DOMAIN trimmed |-> ParseEntry(trimmed[i])]
  IN IF trimmed = <<>> THEN [threw |-> FALSE, options |-> <<>>]
     ELSE IF \E i \in DOMAIN parsed0 : parsed0[i].threw THEN [threw |-> TRUE, options |-> <<>>]
     ELSE LET parsed == SortClips(parsed0)
              base == ClipBase(parsed)
          IN [threw |-> FALSE,
              options |-> [i \in DOMAIN parsed |->
                 [url |-> parsed[i].url,
                  source |-> parsed[i].source,
                  firstPullSeconds |-> parsed[i].firstPullSeconds,
                  label |-> parsed[i].label,
                  characterName |-> parsed[i].characterName,
                  offsetSeconds |-> parsed[i].firstPullSeconds - base]]]

-----------------------------------------------------------------------------
(* SpecClips: buildVideoOptionsFromInputs applied to the forms of the model *)

MaxClips == 3

Text30 == <<"0", "0", ":", "0", "0", ":", "3", "0">>

Text120 == <<"0", "0", ":", "0", "2", ":", "0", "0">>

Text3600 == <<" ", "1", ":", "0", ":", "0">>

TextBadMinutes == <<"0", "0", ":", "6", "1", ":", "0", "0">>

TextNotNumber == <<"0", "0", ":", "x", ":", "0", "0">>

FirstPullTexts == {Text30, Text120, Text3600, TextBadMinutes, TextNotNumber, <<>>}

ClipUrls == {"", UrlYoutubeA, UrlMp4A, UrlOther}

EntryPool == {[url |-> u, firstPull |-> t, label |-> ""] : u \in ClipUrls, t \in FirstPullTexts}

InitClips ==
  /\ AppInitial
  /\ TimeIdle
  /\ AbilityIdle
  /\ ServerIdle
  /\ inEntries \in SeqsUpTo(EntryPool, MaxClips)
  /\ outOptions = None
  /\ inFights = <<>>
  /\ inAnchor = 0
  /\ outRows = None

ResolveClips ==
  /\ outOptions = None
  /\ outOptions' = Some(buildVideoOptionsFromInputs(inEntries))
  /\ UNCHANGED <<inFights, inAnchor, outRows, inEntries, timeVars, abilityVars, appVars,
                 serverVars>>

NextClips == ResolveClips

SpecClips == InitClips /\ [][NextClips]_vars

-----------------------------------------------------------------------------
(* Properties of buildVideoOptionsFromInputs                               *)

Resolved == outOptions # None

Options == Val(outOptions).options

\* the positions of the form entries that carry a url
WithUrl == {i \in DOMAIN inEntries : inEntries[i].url \notin {"", "   "}}

\* the least firstPullSeconds of the resolved clips
MinAnchor ==
  CHOOSE v \in {Options[i].firstPullSeconds : i \in DOMAIN Options} :
    \A j \in DOMAIN Options : v <= Options[j].firstPullSeconds

\* C8: for every non-empty accepted list, each clip's offsetSeconds is its
\* firstPullSeconds minus the least firstPullSeconds of the accepted clips: all
\* offsets are >= 0, a clip with the least anchor has offset 0, and so has clip 0.
C8_OffsetsFromEarliestAnchor ==
  (Resolved /\ ~Val(outOptions).threw /\ WithUrl # {}) =>
     /\ Len(Options) = Cardinality(WithUrl)
     /\ \A i \in WithUrl : \E k \in DOMAIN Options :
          Options[k].firstPullSeconds = parseHhmmss(FirstPullText(inEntries[i])).value
     /\ \A i \in DOMAIN Options :
          /\ Options[i].offsetSeconds = Options[i].firstPullSeconds - MinAnchor
          /\ Options[i].offsetSeconds >= 0
          /\ Options[i].firstPullSeconds = MinAnchor => Options[i].offsetSeconds = 0
     /\ Options[1].offsetSeconds = 0

\* C8 witness: three clips entered latest anchor first (3600 s, 120 s, 30 s)
C8_Witness ==
  /\ Resolved
  /\ Len(inEntries) = 3
  /\ inEntries[1].firstPull = Text3600 /\ inEntries[1].url = UrlMp4A
  /\ inEntries[2].firstPull = Text120 /\ inEntries[2].url = UrlYoutubeA
  /\ inEntries[3].firstPull = Text30 /\ inEntries[3].url = UrlMp4A
  /\ Len(Options) = 3
  /\ Options[1].offsetSeconds = 0
  /\ Options[2].offsetSeconds = 90
  /\ Options[3].offsetSeconds = 3570

-----------------------------------------------------------------------------
(* src/src/components/VideoPlayer.tsx: the refs of the player and the      *)
(* effects that run when App commits a render                              *)
(*                                                                         *)
(* player.htmlVideoRef      None, or Some([src, readyState, currentTime])  *)
(* player.htmlMetadataListener  None, or Some(target): the loadedmetadata  *)
(*                          handler on the element, with the target it     *)
(*                          captured                                       *)
(* player.youtubePlayerRef  None, or Some([videoId, ready, time])          *)
(* player.youtubeThen       None, or Some(videoId): the continuation of    *)
(*                          ensureYoutubeApi() that is still waiting and   *)
(*                          has not been cancelled                         *)
(* player.pendingSeekRef    None, or Some(milliseconds)                    *)

\* what identifies the media of a source: the video id or the file url
MediaOf(source) == IF source.kind = "youtube" THEN source.videoId ELSE source.url

\* applyPendingSeek (VideoPlayer.tsx:82-114) with the `source` of its closure.
\* The result is a set of outcomes: the YouTube methods of a player that has not
\* fired onReady may be missing, so a seekTo on it either throws (the refs keep
\* their values) or is ignored (the target is then cleared all the same).
applyPendingSeek(pl, source) ==
  IF pl.pendingSeekRef = None THEN {[pl |-> pl, threw |-> FALSE]}
  ELSE
    LET target == Val(pl.pendingSeekRef)
    IN IF source.kind = "html5" /\ pl.htmlVideoRef # None
       THEN LET video == Val(pl.htmlVideoRef)
            IN IF video.readyState >= 1
               THEN {[pl |-> [pl EXCEPT !.htmlMetadataListener = None,
                                        !.htmlVideoRef = Some([video EXCEPT !.currentTime = target]),
                                        !.pendingSeekRef = None],
                      threw |-> FALSE]}
               ELSE {[pl |-> [pl EXCEPT !.htmlMetadataListener = Some(target)],
                      threw |-> FALSE]}
       ELSE IF source.kind = "youtube" /\ pl.youtubePlayerRef # None
       THEN LET yt == Val(pl.youtubePlayerRef)
            IN IF yt.ready
               THEN {[pl |-> [pl EXCEPT !.youtubePlayerRef = Some([yt EXCEPT !.time = target]),
                                        !.pendingSeekRef = None],
                      threw |-> FALSE]}
               ELSE {[pl |-> [pl EXCEPT !.pendingSeekRef = None], threw |-> FALSE],
                     [pl |-> pl, threw |-> TRUE]}
       ELSE {[pl |-> pl, threw |-> FALSE]}

\* the callback of ensureYoutubeApi().then (VideoPlayer.tsx:144-167) for the
\* source of its effect; an exception in it is an unhandled rejection and
\* leaves the refs as they are
YoutubeThen(pl, source) ==
  IF pl.youtubePlayerRef = None
  THEN {[pl EXCEPT !.youtubeThen = None,
                   !.youtubePlayerRef = Some([videoId |-> source.videoId,
                                               ready |-> FALSE, time |-> 0])]}
  ELSE LET yt == Val(pl.youtubePlayerRef)
           done == [pl EXCEPT !.youtubeThen = None]
       IN IF yt.ready
          THEN LET loaded == [done EXCEPT !.youtubePlayerRef =
                                Some([videoId |-> source.videoId, ready |-> TRUE, time |-> 0])]
               IN {o.pl : o \in applyPendingSeek(loaded, source)}
          ELSE {done} \cup {o.pl : o \in applyPendingSeek(done, source)}

\* the seek effect (VideoPlayer.tsx:116-120)
SeekEffect(pl, source, startSeconds) ==
  applyPendingSeek([pl EXCEPT !.pendingSeekRef = Some(startSeconds)], source)

\* the YouTube effect (VideoPlayer.tsx:135-171): the cleanup of its previous run
\* cancels the waiting continuation, then the body runs. With the iframe API
\* already loaded the continuation is a microtask: it runs before anything else.
YoutubeEffect(pl, source, apiReady) ==
  LET cleaned == [pl EXCEPT !.youtubeThen = None]
  IN IF source.kind # "youtube" THEN {[cleaned EXCEPT !.youtubePlayerRef = None]}
     ELSE IF apiReady THEN YoutubeThen(cleaned, source)
     ELSE {[cleaned EXCEPT !.youtubeThen = Some(source.videoId)]}

\* what React does to the DOM when the rendered source is `source`
\* (VideoPlayer.tsx:176-186): a <video> element is created, kept (a new src
\* restarts its load: readyState 0, currentTime 0) or removed
CommitDom(pl, source) ==
  IF source.kind = "html5"
  THEN IF pl.htmlVideoRef # None /\ Val(pl.htmlVideoRef).src = source.url THEN pl
       ELSE [pl EXCEPT !.htmlVideoRef = Some([src |-> source.url, readyState |-> 0,
                                              currentTime |-> 0]),
                       !.htmlMetadataListener =
                          IF pl.htmlVideoRef = None THEN None ELSE pl.htmlMetadataListener]
  ELSE [pl EXCEPT !.htmlVideoRef = None, !.htmlMetadataListener = None]

\* One commit of a mounted VideoPlayer: the DOM update, the seek effect, then
\* the YouTube effect when the source object changed. An exception in the seek
\* effect ends the commit.
RenderPlayer(pl, source, sourceChanged, startSeconds, apiReady) ==
  LET seeks == SeekEffect(CommitDom(pl, source), source, startSeconds)
  IN UNION {IF o.threw THEN {o}
            ELSE IF sourceChanged
                 THEN {[pl |-> q, threw |-> FALSE] : q \in YoutubeEffect(o.pl, source, apiReady)}
                 ELSE {o} : o \in seeks}

\* getCurrentTime of the imperative handle (VideoPlayer.tsx:45-54)
getCurrentTime(pl, source) ==
  IF source.kind = "html5" /\ pl.htmlVideoRef # None THEN Val(pl.htmlVideoRef).currentTime
  ELSE IF source.kind = "youtube" /\ pl.youtubePlayerRef # None
       THEN IF Val(pl.youtubePlayerRef).ready THEN Val(pl.youtubePlayerRef).time ELSE 0
       ELSE 0

\* seekTo of the imperative handle (VideoPlayer.tsx:35-44); on a YouTube player
\* that is not ready the call has no effect on the player
seekTo(pl, source, seconds) ==
  IF source.kind = "html5" /\ pl.htmlVideoRef # None
  THEN [pl EXCEPT !.htmlVideoRef = Some([Val(pl.htmlVideoRef) EXCEPT !.currentTime = seconds])]
  ELSE IF source.kind = "youtube" /\ pl.youtubePlayerRef # None /\ Val(pl.youtubePlayerRef).ready
       THEN [pl EXCEPT !.youtubePlayerRef = Some([Val(pl.youtubePlayerRef) EXCEPT !.time = seconds])]
       ELSE pl

-----------------------------------------------------------------------------
(* src/src/lib/classColors.ts: App                                         *)

MaxRevision == 2

MaxPlaySteps == 1

\* the time that passes in one step of playback, in milliseconds
PlayStep == 60 * MsPerSecond

ValidReportId == "AbCd1234EfGh5678"

ReportIds == {ValidReportId, "not-a-report"}

\* A mutant of extractReportIdThrows: every identifier is accepted
extractReportIdThrows_Never(input) == FALSE

\* extractReportId (logtime.ts:129-139): TRUE when it throws
extractReportIdThrows(input) == input # ValidReportId

\* the video forms the user submits: two files, two YouTube videos, a YouTube
\* video and a file entered latest first, one file with a later first pull, a
\* bad timestamp, no url at all
Forms ==
  {<<[url |-> UrlMp4A, firstPull |-> Text30, label |-> ""],
     [url |-> UrlMp4B, firstPull |-> Text120, label |-> ""]>>,
   <<[url |-> UrlYoutubeA, firstPull |-> Text30, label |-> ""],
     [url |-> UrlYoutubeB, firstPull |-> Text120, label |-> ""]>>,
   <<[url |-> UrlYoutubeA, firstPull |-> Text120, label |-> ""],
     [url |-> UrlMp4A, firstPull |-> Text30, label |-> ""]>>,
   <<[url |-> UrlMp4B, firstPull |-> Text120, label |-> ""]>>,
   <<[url |-> UrlMp4A, firstPull |-> TextBadMinutes, label |-> ""]>>,
   <<[url |-> "", firstPull |-> DefaultFirstPull, label |-> ""]>>}

\* the replies of POST /api/report: an error, a report without fights, a report
\* with trash fights only (encounterID 0 and none), a report with two pulls, and
\* the same report earlier in the raid, with a trash fight and one pull
Replies ==
  {[ok |-> FALSE, fights |-> <<>>, title |-> ""],
   [ok |-> TRUE, fights |-> <<>>, title |-> "Empty"],
   [ok |-> TRUE, title |-> "Trash",
    fights |-> WithIds(<<[BaseFight EXCEPT !.encounterID = Some(0)],
                         [BaseFight EXCEPT !.encounterID = None]>>)],
   [ok |-> TRUE, title |-> "Raid",
    fights |-> WithIds(<<[BaseFight EXCEPT !.encounterID = Some(0), !.startTime = 50000,
                                           !.endTime = 60000],
                         [BaseFight EXCEPT !.startTime = 100000, !.endTime = 160000]>>)],
   [ok |-> TRUE, title |-> "Raid",
    fights |-> WithIds(<<[BaseFight EXCEPT !.startTime = 100000, !.endTime = 160000],
                         [BaseFight EXCEPT !.startTime = 220000, !.endTime = 250000,
                                           !.kill = TRUE]>>)]}

\* buildVideoOptionsFromInputs(form.videos) for each form of the model
\* (classColors.ts:185), and buildBossFightRows(report.fights ?? [], anchor) for
\* each reply and each anchor a form can give (classColors.ts:127, 209)
OptionsOfForm == [videos \in Forms |-> buildVideoOptionsFromInputs(videos)]

Anchors ==
  {built.options[1].firstPullSeconds :
     built \in {b \in {OptionsOfForm[videos] : videos \in Forms} : b.options # <<>>}}

RowsOfReply ==
  [reply \in Replies, anchor \in Anchors |-> buildBossFightRows(reply.fights, anchor)]

\* const activeVideo = videoOptions[activeVideoIndex] ?? null (classColors.ts:105)
ActiveVideo ==
  IF activeVideoIndex + 1 \in DOMAIN videoOptions
  THEN Some(videoOptions[activeVideoIndex + 1]) ELSE None

\* ensureYoutubeApi (VideoPlayer.tsx:210-229) is called when a YouTube source is
\* committed: the first call starts loading the script
ApiAfter(source) ==
  IF source.kind = "youtube" /\ youtubeApi = "none" THEN "loading" ELSE youtubeApi

\* fights.find(...) of the second effect of ReviewWorkspace
\* (classColors.ts:594-599): the positions of the rows whose pull the time is in
ActiveFights(rows, time) ==
  {i \in DOMAIN rows :
     time >= rows[i].videoSeconds /\ time < rows[i].videoSeconds + rows[i].durationSeconds}

\* the two effects of ReviewWorkspace (classColors.ts:587-603) run until nothing
\* changes: the pull the time is in is selected, found in the given rows;
\* without one a missing selection becomes the first row, and any other
\* selection stays
SettleSelection(selected, rows, time) ==
  IF ActiveFights(rows, time) # {}
  THEN Some([row |-> rows[CHOOSE i \in ActiveFights(rows, time) :
                            \A j \in ActiveFights(rows, time) : i <= j],
             stale |-> FALSE])
  ELSE IF selected = None /\ rows # <<>>
       THEN Some([row |-> rows[1], stale |-> FALSE])
       ELSE selected

\* the selection after a commit of App. ReviewWorkspace is mounted in the review
\* phase only (classColors.ts:367-386) and starts without a selection
\* (classColors.ts:582); after setFights the selection it holds is a row of the
\* array before.
SelectedAfter(replaced) ==
  selectedFight' =
    IF phase' # "review" THEN None
    ELSE SettleSelection(IF phase # "review" \/ selectedFight = None THEN None
                         ELSE IF replaced THEN Some([Val(selectedFight) EXCEPT !.stale = TRUE])
                         ELSE selectedFight,
                         fights', currentVideoTime')

\* the callbacks still waiting once callback i has put its rows on display:
\* those that started before it are overtaken
StillInFlight(i) ==
  LET marked == [j \in DOMAIN refreshInFlight |->
                   [refreshInFlight[j] EXCEPT !.overtaken = (j < i)]]
  IN SelectSeqIdx(marked, DOMAIN marked \ {i})

\* the callbacks still waiting once rows that are not a refresh result are on
\* display
NoneOvertaken ==
  [j \in DOMAIN refreshInFlight |-> [refreshInFlight[j] EXCEPT !.overtaken = FALSE]]

\* what no handler of App and no event of the player touches
appFrame == UNCHANGED <<pureVars, serverVars, refreshInFlight>>

\* handleSubmit up to `await fetchReportFights` (classColors.ts:178-208). The
\* submit button is disabled while loading (classColors.ts:529).
Submit ==
  /\ ~crashed /\ phase = "landing" /\ ~loading
  /\ playerSeekRevision < MaxRevision
  /\ \E videos \in Forms, reportId \in ReportIds, live \in BOOLEAN :
       \E built \in {OptionsOfForm[videos]} :
          IF built.threw \/ built.options = <<>> \/ extractReportIdThrows(reportId)
          THEN /\ status' = "error"
               /\ statusMessage' =
                    IF built.threw THEN "Video #n: invalid timestamp or unsupported URL"
                    ELSE IF built.options = <<>>
                         THEN "Add at least one video with a first pull timestamp."
                         ELSE "Report ID or URL is invalid."
               /\ loading' = FALSE
               /\ UNCHANGED submitPending
          ELSE /\ status' = "info"
               /\ statusMessage' = "Loading report"
               /\ loading' = TRUE
               /\ submitPending' = Some([options |-> built.options,
                                         baseFirstPull |-> built.options[1].firstPullSeconds,
                                         trimmedId |-> reportId,
                                         liveMode |-> live])
  /\ UNCHANGED <<phase, fights, reportMeta, videoOptions, activeVideoIndex, playerSeekRevision,
                 playerStartSeconds, liveMode, activeReportId, vodOffsetSeconds,
                 currentVideoTime, player, youtubeApi, crashed, lastSwap>>
  /\ UNCHANGED selectedFight
  /\ appFrame

\* handleSubmit after the await (classColors.ts:208-233): the reply arrives
SubmitResponse ==
  /\ ~crashed /\ submitPending # None
  /\ \E reply \in Replies :
       \E built \in {RowsOfReply[reply, Val(submitPending).baseFirstPull]} :
       LET call == Val(submitPending)
           source == call.options[1].source
       IN IF ~reply.ok \/ built.threw
          THEN /\ status' = "error"
               /\ statusMessage' = IF ~reply.ok THEN "Failed to load report"
                                   ELSE "Report contains no boss fights."
               /\ UNCHANGED <<phase, fights, reportMeta, videoOptions, activeVideoIndex,
                              playerSeekRevision, playerStartSeconds, liveMode,
                              activeReportId, vodOffsetSeconds, player, youtubeApi, lastSwap,
                              refreshInFlight>>
          ELSE /\ fights' = built.rows
               /\ refreshInFlight' = NoneOvertaken
               /\ reportMeta' = Some(reply.title)
               /\ videoOptions' = call.options
               /\ activeVideoIndex' = 0
               /\ playerStartSeconds' = 0
               /\ playerSeekRevision' = playerSeekRevision + 1
               /\ liveMode' = call.liveMode
               /\ activeReportId' = Some(call.trimmedId)
               /\ vodOffsetSeconds' = Some(call.baseFirstPull)
               /\ status' = "success"
               /\ statusMessage' = "Loaded n boss pulls."
               /\ phase' = "review"
               /\ \E o \in RenderPlayer(InitialPlayer, source, TRUE, 0, youtubeApi = "ready") :
                    player' = o.pl
               /\ youtubeApi' = ApiAfter(source)
               /\ lastSwap' = None
  /\ loading' = FALSE
  /\ submitPending' = None
  /\ UNCHANGED <<currentVideoTime, crashed>>
  /\ SelectedAfter(TRUE)
  /\ UNCHANGED <<pureVars, serverVars>>

\* handleVideoSelect (classColors.ts:266-272) and the commit that follows; the
\* clip buttons are rendered in the review phase when there are several clips
\* (classColors.ts:884-912)
handleVideoSelect(index) ==
  /\ ~crashed /\ phase = "review"
  /\ Len(videoOptions) > 1
  /\ index + 1 \in DOMAIN videoOptions
  /\ playerSeekRevision < MaxRevision
  /\ LET option == videoOptions[index + 1]
         relativeSeconds == Max(0, currentVideoTime + option.offsetSeconds * MsPerSecond)
     IN /\ activeVideoIndex' = index
        /\ playerStartSeconds' = relativeSeconds
        /\ playerSeekRevision' = playerSeekRevision + 1
        /\ \E o \in RenderPlayer(player, option.source, index # activeVideoIndex,
                                 relativeSeconds, youtubeApi = "ready") :
             /\ player' = o.pl
             /\ crashed' = o.threw
        /\ youtubeApi' = ApiAfter(option.source)
        /\ lastSwap' = IF index # activeVideoIndex
                       THEN Some([by |-> "select", startSeconds |-> relativeSeconds,
                                  globalTime |-> currentVideoTime])
                       ELSE None
  /\ UNCHANGED <<phase, status, statusMessage, loading, fights, reportMeta, videoOptions, liveMode,
                 activeReportId, vodOffsetSeconds, currentVideoTime, submitPending>>
  /\ UNCHANGED selectedFight
  /\ appFrame

\* the global times the timeline of the selected pull passes to onJump: its
\* left end and its right end (classColors.ts:641-649)
TimelineTargets ==
  IF selectedFight = None THEN {}
  ELSE {Val(selectedFight).row.videoSeconds,
        Val(selectedFight).row.videoSeconds + Val(selectedFight).row.durationSeconds}

\* the global times the review workspace passes to onJump: the start of a pull
\* (classColors.ts:964) and the times of the timeline
JumpTargets == {fights[i].videoSeconds : i \in DOMAIN fights} \cup TimelineTargets

\* relativeSeconds < -0.25 (classColors.ts:248), in milliseconds
JumpSlack == 0 - MsPerSecond \div 4

\* handleJump (classColors.ts:236-264) and the commit of App that follows; the
\* selection of ReviewWorkspace is settled by the caller. The review workspace
\* is only shown with a report loaded, so videoOptions is not empty.
handleJump(seconds) ==
  /\ ~crashed /\ phase = "review"
  /\ videoOptions # <<>>
  /\ LET current == IF ActiveVideo # None THEN Val(ActiveVideo) ELSE videoOptions[1]
         fallback == seconds + current.offsetSeconds * MsPerSecond < JumpSlack
         targetIndex == IF fallback THEN 0 ELSE activeVideoIndex
         targetVideo == IF fallback THEN videoOptions[1] ELSE current
         relativeSeconds == Max(0, seconds + targetVideo.offsetSeconds * MsPerSecond)
     IN /\ currentVideoTime' = seconds
        /\ IF targetIndex # activeVideoIndex
           THEN /\ playerSeekRevision < MaxRevision
                /\ activeVideoIndex' = targetIndex
                /\ playerStartSeconds' = relativeSeconds
                /\ playerSeekRevision' = playerSeekRevision + 1
                /\ \E o \in RenderPlayer(player, targetVideo.source, TRUE, relativeSeconds,
                                         youtubeApi = "ready") :
                     /\ player' = o.pl
                     /\ crashed' = o.threw
                /\ youtubeApi' = ApiAfter(targetVideo.source)
                /\ lastSwap' = Some([by |-> "jump", startSeconds |-> relativeSeconds,
                                      globalTime |-> seconds])
           ELSE /\ player' = seekTo(player, targetVideo.source, relativeSeconds)
                /\ lastSwap' = None
                /\ UNCHANGED <<activeVideoIndex, playerStartSeconds, playerSeekRevision,
                               youtubeApi, crashed>>
  /\ UNCHANGED <<phase, status, statusMessage, loading, fights, reportMeta, videoOptions, liveMode,
                 activeReportId, vodOffsetSeconds, submitPending>>
  /\ appFrame

\* the button of a pull (classColors.ts:959-965): the pull is selected and the
\* video jumps to its start
PullClick(i) ==
  /\ i \in DOMAIN fights
  /\ handleJump(fights[i].videoSeconds)
  /\ selectedFight' = SettleSelection(Some([row |-> fights[i], stale |-> FALSE]),
                                      fights', currentVideoTime')

\* a pointer press on the timeline of the selected pull (classColors.ts:651-660)
TimelineJump(seconds) ==
  /\ seconds \in TimelineTargets
  /\ handleJump(seconds)
  /\ SelectedAfter(FALSE)

\* handleReset (classColors.ts:274-289), the "New report" button of the review
\* phase (classColors.ts:309-347); the workspace and its player unmount
handleReset ==
  /\ ~crashed /\ phase = "review"
  /\ playerSeekRevision < MaxRevision
  /\ phase' = "landing"
  /\ fights' = <<>>
  /\ refreshInFlight' = NoneOvertaken
  /\ reportMeta' = None
  /\ videoOptions' = <<>>
  /\ activeVideoIndex' = 0
  /\ playerStartSeconds' = 0
  /\ playerSeekRevision' = playerSeekRevision + 1
  /\ activeReportId' = None
  /\ vodOffsetSeconds' = None
  /\ status' = "idle"
  /\ statusMessage' = ""
  /\ loading' = FALSE
  /\ currentVideoTime' = 0
  /\ player' = InitialPlayer
  /\ lastSwap' = None
  /\ UNCHANGED <<liveMode, submitPending, youtubeApi, crashed>>
  /\ SelectedAfter(FALSE)
  /\ UNCHANGED <<pureVars, serverVars>>

\* the title button of the header: setPhase("landing") (classColors.ts:304); the
\* report and the clips stay in the state, the player unmounts
NavHome ==
  /\ ~crashed /\ phase = "review"
  /\ phase' = "landing"
  /\ player' = InitialPlayer
  /\ lastSwap' = None
  /\ UNCHANGED <<status, statusMessage, loading, fights, reportMeta, videoOptions, activeVideoIndex,
                 playerSeekRevision, playerStartSeconds, liveMode, activeReportId,
                 vodOffsetSeconds, currentVideoTime, submitPending, youtubeApi, crashed>>
  /\ SelectedAfter(FALSE)
  /\ appFrame

\* one tick of the 500 ms interval (classColors.ts:112-116); without a mounted
\* player playerRef.current is null and the local time reads 0
PollTick ==
  /\ ~crashed /\ ActiveVideo # None
  /\ LET activeVideo == Val(ActiveVideo)
         localTime == IF phase = "review" THEN getCurrentTime(player, activeVideo.source) ELSE 0
     IN currentVideoTime' = Max(0, localTime - activeVideo.offsetSeconds * MsPerSecond)
  /\ UNCHANGED <<phase, status, statusMessage, loading, fights, reportMeta, videoOptions, activeVideoIndex,
                 playerSeekRevision, playerStartSeconds, liveMode, activeReportId,
                 vodOffsetSeconds, submitPending, player, youtubeApi, crashed, lastSwap>>
  /\ SelectedAfter(FALSE)
  /\ appFrame

\* the iframe API script finishes loading: the promise of ensureYoutubeApi
\* resolves and the continuation that was not cancelled runs
YoutubeApiLoaded ==
  /\ ~crashed /\ youtubeApi = "loading"
  /\ youtubeApi' = "ready"
  /\ IF player.youtubeThen = None THEN UNCHANGED player
     ELSE \E q \in YoutubeThen(player, [kind |-> "youtube", videoId |-> Val(player.youtubeThen)]) :
            player' = q
  /\ UNCHANGED <<phase, status, statusMessage, loading, fights, reportMeta, videoOptions, activeVideoIndex,
                 playerSeekRevision, playerStartSeconds, liveMode, activeReportId,
                 vodOffsetSeconds, currentVideoTime, submitPending, crashed, lastSwap>>
  /\ UNCHANGED selectedFight
  /\ appFrame

\* onReady of the YouTube player (VideoPlayer.tsx:158-160)
YoutubeReady ==
  /\ ~crashed /\ player.youtubePlayerRef # None
  /\ ~Val(player.youtubePlayerRef).ready
  /\ LET yt == Val(player.youtubePlayerRef)
         ready == [player EXCEPT !.youtubePlayerRef = Some([yt EXCEPT !.ready = TRUE])]
     IN \E o \in applyPendingSeek(ready, [kind |-> "youtube", videoId |-> yt.videoId]) :
          player' = o.pl
  /\ UNCHANGED <<phase, status, statusMessage, loading, fights, reportMeta, videoOptions, activeVideoIndex,
                 playerSeekRevision, playerStartSeconds, liveMode, activeReportId,
                 vodOffsetSeconds, currentVideoTime, submitPending, youtubeApi, crashed,
                 lastSwap>>
  /\ UNCHANGED selectedFight
  /\ appFrame

\* loadedmetadata of the <video> element: readyState becomes 1 and the handler
\* registered by applyPendingSeek (VideoPlayer.tsx:88-97, 104-108) runs
HtmlLoadedMetadata ==
  /\ ~crashed /\ player.htmlVideoRef # None
  /\ Val(player.htmlVideoRef).readyState = 0
  /\ LET video == [Val(player.htmlVideoRef) EXCEPT !.readyState = 1]
     IN player' =
          IF player.htmlMetadataListener = None
          THEN [player EXCEPT !.htmlVideoRef = Some(video)]
          ELSE [player EXCEPT
                  !.htmlVideoRef =
                     Some([video EXCEPT !.currentTime = Val(player.htmlMetadataListener)]),
                  !.htmlMetadataListener = None,
                  !.pendingSeekRef = None]
  /\ UNCHANGED <<phase, status, statusMessage, loading, fights, reportMeta, videoOptions, activeVideoIndex,
                 playerSeekRevision, playerStartSeconds, liveMode, activeReportId,
                 vodOffsetSeconds, currentVideoTime, submitPending, youtubeApi, crashed,
                 lastSwap>>
  /\ UNCHANGED selectedFight
  /\ appFrame

MaxPlayTime == MaxPlaySteps * PlayStep

\* the loaded media plays for PlayStep milliseconds
PlayTick ==
  /\ ~crashed /\ phase = "review"
  /\ \/ /\ player.htmlVideoRef # None
        /\ Val(player.htmlVideoRef).readyState >= 1
        /\ Val(player.htmlVideoRef).currentTime < MaxPlayTime
        /\ player' = [player EXCEPT !.htmlVideoRef =
                        Some([Val(player.htmlVideoRef) EXCEPT !.currentTime = @ + PlayStep])]
     \/ /\ player.youtubePlayerRef # None
        /\ Val(player.youtubePlayerRef).ready
        /\ Val(player.youtubePlayerRef).time < MaxPlayTime
        /\ player' = [player EXCEPT !.youtubePlayerRef =
                        Some([Val(player.youtubePlayerRef) EXCEPT !.time = @ + PlayStep])]
  /\ lastSwap' = None
  /\ UNCHANGED <<phase, status, statusMessage, loading, fights, reportMeta, videoOptions, activeVideoIndex,
                 playerSeekRevision, playerStartSeconds, liveMode, activeReportId,
                 vodOffsetSeconds, currentVideoTime, submitPending, youtubeApi, crashed>>
  /\ UNCHANGED selectedFight
  /\ appFrame

MaxInFlight == 2

\* the condition under which the live refresh effect sets its interval
\* (classColors.ts:121)
RefreshActive ==
  liveMode /\ phase = "review" /\ activeReportId # None /\ vodOffsetSeconds # None

\* one tick of the 45 s interval (classColors.ts:124-126): the callback starts a
\* fetch with the activeReportId and vodOffsetSeconds of the render of its effect
RefreshTick ==
  /\ ~crashed /\ RefreshActive
  /\ Len(refreshInFlight) < MaxInFlight
  /\ refreshInFlight' = Append(refreshInFlight,
                               [activeReportId |-> Val(activeReportId),
                                vodOffsetSeconds |-> Val(vodOffsetSeconds),
                                overtaken |-> FALSE])
  /\ UNCHANGED <<phase, status, statusMessage, loading, fights, reportMeta, videoOptions, activeVideoIndex,
                 playerSeekRevision, playerStartSeconds, liveMode, activeReportId,
                 vodOffsetSeconds, currentVideoTime, submitPending, player, youtubeApi,
                 crashed, lastSwap>>
  /\ UNCHANGED selectedFight
  /\ UNCHANGED <<pureVars, serverVars>>

\* A mutant of RefreshCatch: a failed cycle empties the display
RefreshCatch_ClearsRows ==
  /\ status' = "error"
  /\ statusMessage' = "Live refresh failed"
  /\ fights' = <<>>
  /\ reportMeta' = None

\* the catch branch of the refresh callback (classColors.ts:135-141)
RefreshCatch ==
  /\ status' = "error"
  /\ statusMessage' = "Live refresh failed"
  /\ UNCHANGED <<fights, reportMeta>>

\* the fetch of a refresh callback completes (classColors.ts:126-141), whatever
\* has happened to the effect since: nothing in the callback looks at it
RefreshResponse ==
  /\ ~crashed
  /\ \E i \in DOMAIN refreshInFlight, reply \in Replies :
       \E built \in {RowsOfReply[reply, refreshInFlight[i].vodOffsetSeconds]} :
       LET call == refreshInFlight[i]
       IN /\ IF ~reply.ok \/ built.threw
             THEN /\ RefreshCatch
                  /\ refreshInFlight' =
                       SelectSeqIdx(refreshInFlight, DOMAIN refreshInFlight \ {i})
             ELSE /\ refreshInFlight' = StillInFlight(i)
                  /\ fights' = built.rows
                  /\ reportMeta' = Some(reply.title)
                  /\ status' = "success"
                  /\ statusMessage' = "Live refresh (n pulls)."
          /\ UNCHANGED <<phase, currentVideoTime>>
          /\ SelectedAfter(reply.ok /\ ~built.threw)
  /\ UNCHANGED <<loading, videoOptions, activeVideoIndex, playerSeekRevision,
                 playerStartSeconds, liveMode, activeReportId, vodOffsetSeconds,
                 submitPending, player, youtubeApi, crashed, lastSwap>>
  /\ UNCHANGED <<pureVars, serverVars>>

Init ==
  /\ AppInitial
  /\ TimeIdle
  /\ AbilityIdle
  /\ ServerIdle
  /\ inFights = <<>>
  /\ inAnchor = 0
  /\ outRows = None
  /\ inEntries = <<>>
  /\ outOptions = None

Next ==
  \/ Submit
  \/ SubmitResponse
  \/ \E index \in 0..(MaxClips - 1) : handleVideoSelect(index)
  \/ \E i \in 1..MaxFights : PullClick(i)
  \/ \E seconds \in TimelineTargets : TimelineJump(seconds)
  \/ handleReset
  \/ NavHome
  \/ PollTick
  \/ RefreshTick
  \/ RefreshResponse
  \/ YoutubeApiLoaded
  \/ YoutubeReady
  \/ HtmlLoadedMetadata
  \/ PlayTick

Spec == Init /\ [][Next]_vars

-----------------------------------------------------------------------------
(* Properties of clip switching                                            *)

ActiveSource == Val(ActiveVideo).source

ActiveOffset == Val(ActiveVideo).offsetSeconds * MsPerSecond

\* the player has finished loading: the <video> element has its metadata, or
\* the YouTube player is ready and no continuation is waiting to load a video
PlayerSettled ==
  /\ ~crashed /\ phase = "review" /\ ActiveVideo # None
  /\ IF ActiveSource.kind = "html5"
     THEN player.htmlVideoRef # None /\ Val(player.htmlVideoRef).readyState >= 1
     ELSE /\ player.youtubePlayerRef # None
          /\ Val(player.youtubePlayerRef).ready
          /\ player.youtubeThen = None

\* the media the player shows
LoadedMedia ==
  IF ActiveSource.kind = "html5" THEN Val(player.htmlVideoRef).src
  ELSE Val(player.youtubePlayerRef).videoId

LocalTime == getCurrentTime(player, ActiveSource)

\* C9: switching preserves global time: handleVideoSelect starts the selected
\* clip at the current global time plus the clip's offsetSeconds, and once the
\* clip has loaded the global time derived from its local time (local minus
\* offsetSeconds) is the global time from before the switch.
C9_SwitchPreservesGlobalTime ==
  (lastSwap # None /\ Val(lastSwap).by = "select" /\ PlayerSettled) =>
     /\ Val(lastSwap).startSeconds = Val(lastSwap).globalTime + ActiveOffset
     /\ Max(0, LocalTime - ActiveOffset) = Val(lastSwap).globalTime

\* C10: after a clip swap the player, once the new clip is ready, shows the new
\* clip positioned at the startSeconds of the swap, whatever the kinds of the
\* old and the new source: the pending target is not used up on the video that
\* was loaded before or on a player that is not ready.
C10_SwapLandsInNewClip ==
  (lastSwap # None /\ PlayerSettled) =>
     /\ LoadedMedia = MediaOf(ActiveSource)
     /\ LocalTime = Val(lastSwap).startSeconds

\* C30: handleJump never changes the active clip: every clip offset is >= 0 and
\* every jump target is >= 0, so the branch that falls back to clip 0 is never
\* taken, and the player is sought to the target global time plus the offset
\* of the active clip.
C30_JumpKeepsClip ==
  [][\A seconds \in JumpTargets :
       handleJump(seconds) =>
         /\ ActiveVideo # None
         /\ seconds >= 0 /\ ActiveOffset >= 0
         /\ activeVideoIndex' = activeVideoIndex
         /\ videoOptions' = videoOptions
         /\ player' = seekTo(player, ActiveSource, seconds + ActiveOffset)]_vars

\* C30 witness: with the second clip active, 90 s behind the first, a jump to
\* the start of the second pull has put the player at that time plus 90 s
C30_Witness ==
  /\ PlayerSettled
  /\ lastSwap = None
  /\ activeVideoIndex = 1
  /\ ActiveOffset = 90 * MsPerSecond
  /\ Len(fights) = 2
  /\ currentVideoTime = fights[2].videoSeconds
  /\ currentVideoTime > 0
  /\ LocalTime = currentVideoTime + ActiveOffset

\* C28: once a live refresh has replaced the row set, the selected pull of
\* ReviewWorkspace is a row of the current row set and never one of a row set
\* before, also when the playback time lies inside no pull.
C28_SelectionIsCurrent ==
  (phase = "review" /\ selectedFight # None) =>
     /\ ~Val(selectedFight).stale
     /\ \E i \in DOMAIN fights : fights[i] = Val(selectedFight).row

-----------------------------------------------------------------------------
(* Properties of the live refresh                                          *)

\* a step in which the fetch of a refresh callback completes
RefreshCompletes == Len(refreshInFlight') < Len(refreshInFlight)

\* the row sets a reply can give when anchored at the stored vodOffsetSeconds
RowsAtStoredAnchor ==
  IF vodOffsetSeconds = None THEN {}
  ELSE {RowsOfReply[reply, Val(vodOffsetSeconds)].rows :
          reply \in {r \in Replies : r.ok /\ ~RowsOfReply[r, Val(vodOffsetSeconds)].threw}}

\* C24: the row set on display is never replaced out of order: once the result
\* of a refresh is displayed, the result of a refresh fetch that started
\* earlier is never written over it.
C24_RefreshInOrder ==
  [][\A i \in DOMAIN refreshInFlight :
       (RefreshCompletes /\ refreshInFlight' = StillInFlight(i)
                         /\ statusMessage' = "Live refresh (n pulls).")
         => ~refreshInFlight[i].overtaken]_vars

\* C11: a refresh cycle leaves videoOptions, activeVideoIndex and
\* vodOffsetSeconds as they are, a successful one changes only the rows, the
\* report metadata and the status, and the rows it stores are built with the
\* anchor stored at session start, vodOffsetSeconds.
C11_RefreshUsesStoredAnchor ==
  [][RefreshCompletes =>
       /\ UNCHANGED <<phase, loading, videoOptions, activeVideoIndex, playerSeekRevision,
                      playerStartSeconds, liveMode, activeReportId, vodOffsetSeconds,
                      currentVideoTime, submitPending, player>>
       /\ status' = "success" => fights' \in RowsAtStoredAnchor]_vars

\* C12: a refresh cycle that fails sets the status to an error and leaves the
\* rows and the report metadata as they are; the interval stays set, and a
\* cycle that succeeds stores the rows of its reply.
C12_FailedRefreshKeepsRows ==
  [][RefreshCompletes =>
       /\ status' \in {"error", "success"}
       /\ status' = "error" =>
            /\ UNCHANGED <<fights, reportMeta>>
            /\ RefreshActive => RefreshActive'
       /\ status' = "success" =>
            \E reply \in Replies, anchor \in Anchors :
              /\ reply.ok /\ ~RowsOfReply[reply, anchor].threw
              /\ fights' = RowsOfReply[reply, anchor].rows
              /\ reportMeta' = Some(reply.title)]_vars

\* C12 witness: a refresh has failed; the two pulls loaded before are still
\* displayed, the interval is set and the next cycle is already in flight
C12_Witness ==
  /\ phase = "review" /\ ~crashed
  /\ status = "error" /\ statusMessage = "Live refresh failed"
  /\ Len(fights) = 2
  /\ reportMeta # None
  /\ RefreshActive
  /\ refreshInFlight # <<>>

\* C13: at most one refresh fetch is in flight at any time
C13_OneRefreshInFlight == Len(refreshInFlight) <= 1

\* C14: the result of a refresh that was in flight at a reset is discarded:
\* with no report loaded (initially and after handleReset) the row set is empty
\* and there is no report metadata.
C14_ResetDiscardsRefresh ==
  activeReportId = None => (fights = <<>> /\ reportMeta = None)

-----------------------------------------------------------------------------
(* Properties of the initial load                                          *)

\* a step in which the fetch of handleSubmit completes
SubmitCompletes == submitPending # None /\ submitPending' = None

\* the fights of a reply that have an encounterID > 0
BossFightsOf(reply) ==
  {i \in DOMAIN reply.fights :
     reply.fights[i].encounterID # None /\ Val(reply.fights[i].encounterID) > 0}

\* C15: buildBossFightRows throws exactly when no fight of the report has an
\* encounterID > 0 and otherwise returns one row per such fight, never an empty
\* list; a load that ends with this error sets an error status and stores
\* nothing: the phase stays landing and the rows, the report metadata, the clip
\* options, the anchor and the active report are as before.
C15_NoBossFightsIsAnError ==
  [][SubmitCompletes =>
       /\ \A reply \in Replies, anchor \in Anchors :
            /\ RowsOfReply[reply, anchor].threw <=> BossFightsOf(reply) = {}
            /\ Len(RowsOfReply[reply, anchor].rows) = Cardinality(BossFightsOf(reply))
       /\ status' = "success" => fights' # <<>>
       /\ fights' = <<>> => status' = "error"
       /\ statusMessage' = "Report contains no boss fights." =>
            /\ status' = "error"
            /\ phase' = "landing"
            /\ ~loading'
            /\ UNCHANGED <<fights, reportMeta, videoOptions, activeVideoIndex, liveMode,
                           activeReportId, vodOffsetSeconds>>]_vars

\* C15 witness: the first load of the session met a report without boss fights
C15_Witness ==
  /\ statusMessage = "Report contains no boss fights."
  /\ status = "error"
  /\ phase = "landing" /\ ~loading
  /\ fights = <<>> /\ videoOptions = <<>>
  /\ vodOffsetSeconds = None /\ activeReportId = None

\* the messages of the validation errors of handleSubmit
ValidationMessages ==
  {"Video #n: invalid timestamp or unsupported URL",
   "Add at least one video with a first pull timestamp.",
   "Report ID or URL is invalid."}

\* a step in which handleSubmit reports a validation error
ValidationFails ==
  /\ statusMessage' \in ValidationMessages
  /\ <<status, statusMessage>>' # <<status, statusMessage>>

\* a step in which handleSubmit issues its fetch
FetchIssued == submitPending = None /\ submitPending' # None

\* the clip lists of the forms that pass validation
AcceptedOptions ==
  {OptionsOfForm[videos].options :
     videos \in {v \in Forms : ~OptionsOfForm[v].threw /\ OptionsOfForm[v].options # <<>>}}

\* C16: validation comes before the network: a submit with an invalid
\* timestamp, URL or report identifier issues no fetch and changes nothing but
\* the status and the loading flag, and a fetch is issued only for a clip list
\* that passed validation and a well-formed report identifier.
C16_ValidationBeforeNetwork ==
  [][/\ ValidationFails =>
          /\ status' = "error"
          /\ ~loading'
          /\ UNCHANGED <<phase, fights, reportMeta, videoOptions, activeVideoIndex,
                         playerSeekRevision, playerStartSeconds, liveMode, activeReportId,
                         vodOffsetSeconds, currentVideoTime, submitPending, refreshInFlight,
                         player>>
     /\ FetchIssued =>
          /\ Val(submitPending').options \in AcceptedOptions
          /\ Val(submitPending').trimmedId = ValidReportId]_vars

\* C16 witness: a submit with a malformed report identifier has been refused
\* before any report was loaded
C16_Witness ==
  /\ status = "error"
  /\ statusMessage = "Report ID or URL is invalid."
  /\ submitPending = None /\ ~loading
  /\ phase = "landing"
  /\ fights = <<>> /\ videoOptions = <<>> /\ activeReportId = None

-----------------------------------------------------------------------------
(* src/src/lib/logtime.ts: formatHhmmss                                    *)

\* String(v) for a non-negative integer
RECURSIVE DigitsOf(_)
DigitsOf(n) ==
  IF n < 10 THEN <<DigitChars[n + 1]>>
  ELSE DigitsOf(n \div 10) \o <<DigitChars[(n % 10) + 1]>>

\* A mutant of PadStart2: no padding
PadStart2_None(str) == str

\* String(v).padStart(2, "0")
PadStart2(str) == IF Len(str) < 2 THEN <<"0">> \o str ELSE str

\* Math.round of a number of milliseconds, in whole seconds: halves go up
MathRound(ms) == (ms + MsPerSecond \div 2) \div MsPerSecond

\* formatHhmmss (logtime.ts:159-165) of a time in milliseconds
formatHhmmss(ms) ==
  LET total == Max(0, MathRound(ms))
      hrs == total \div 3600
      mins == (total % 3600) \div 60
      secs == total % 60
  IN PadStart2(DigitsOf(hrs)) \o <<":">> \o PadStart2(DigitsOf(mins)) \o <<":">>
       \o PadStart2(DigitsOf(secs))

-----------------------------------------------------------------------------
(* SpecTime: formatHhmmss and parseHhmmss applied to the times and the      *)
(* texts of the model                                                      *)

MaxFields == 4

\* hours below and above two digits, up to 500 hours
HourPool == {0, 1, 9, 10, 23, 99, 100, 101, 500}

MinutePool == {0, 1, 9, 10, 59}

SecondsPool == {h * 3600 + m * 60 + sec : h \in HourPool, m \in MinutePool, sec \in MinutePool}

\* the fields of a timestamp text: empty, blank, padded, not padded, at and
\* over the limit of minutes and seconds, three digits, negative, not a number
FieldPool ==
  {<<>>, <<" ">>, <<"0", "5">>, <<"7">>, <<"5", "9">>, <<"6", "0">>,
   <<"1", "0", "0">>, <<"-", "1">>, <<"x">>}

\* fields.join(":")
RECURSIVE JoinColon(_)
JoinColon(fields) ==
  IF Len(fields) = 1 THEN fields[1]
  ELSE JoinColon(SubSeq(fields, 1, Len(fields) - 1)) \o <<":">> \o fields[Len(fields)]

TextPool(maxFields) == {JoinColon(fields) : fields \in SeqsUpTo(FieldPool, maxFields) \ {<<>>}}

InitTime ==
  /\ AppInitial
  /\ ServerIdle
  /\ AbilityIdle
  /\ \/ inSeconds \in SecondsPool /\ inText = DefaultFirstPull
     \/ inSeconds = 0 /\ inText \in TextPool(MaxFields)
  /\ outTime = None
  /\ inFights = <<>>
  /\ inAnchor = 0
  /\ outRows = None
  /\ inEntries = <<>>
  /\ outOptions = None

\* both conversions and both round trips
ConvertTime ==
  /\ outTime = None
  /\ LET formatted == formatHhmmss(inSeconds * MsPerSecond)
         parsed == parseHhmmss(inText)
     IN outTime' = Some([formatted |-> formatted,
                         reparsed |-> parseHhmmss(formatted),
                         parsed |-> parsed,
                         reformatted |-> IF parsed.threw THEN <<>>
                                         ELSE formatHhmmss(parsed.value * MsPerSecond)])
  /\ UNCHANGED <<inFights, inAnchor, outRows, inEntries, outOptions, inSeconds, inText,
                 abilityVars, appVars, serverVars>>

NextTime == ConvertTime

SpecTime == InitTime /\ [][NextTime]_vars

-----------------------------------------------------------------------------
(* src/unnamed/part_003: fetchReport of the report server (235-273), with  *)
(* getAccessToken (60-85), callGraphQL (87-109), fetchDeathEvents          *)
(* (275-301), fetchBloodlustEvents (303-335) and createActorMap (337-345). *)
(* A call is suspended at each `await fetch`; the replies of the OAuth     *)
(* endpoint and of the GraphQL endpoint are the inputs. The phaseMetadata  *)
(* of the enriched fights and the ability of a bloodlust are left out.     *)

\* how many fetchReport calls are followed
MaxCalls == 2

\* the OAuth endpoint answers with response.ok or not
TokenReplies == {[ok |-> FALSE], [ok |-> TRUE]}

\* report.masterData.actors
ReportActors == <<[id |-> 7, name |-> Some("Tank")], [id |-> 8, name |-> None]>>

\* what the report query can bring back: an HTTP failure, a GraphQL error,
\* data with no report object, and reports with no fight list, with a trash
\* fight only, and with a boss fight and a trash fight
ReportReplies ==
  {[ok |-> FALSE, errors |-> FALSE, report |-> None],
   [ok |-> TRUE, errors |-> TRUE, report |-> None],
   [ok |-> TRUE, errors |-> FALSE, report |-> None],
   [ok |-> TRUE, errors |-> FALSE,
    report |-> Some([title |-> None, startTime |-> None, actors |-> <<>>,
                     fights |-> None])],
   [ok |-> TRUE, errors |-> FALSE,
    report |-> Some([title |-> Some("Trash"), startTime |-> Some(1000), actors |-> ReportActors,
                     fights |-> Some(<<[id |-> 1, encounterID |-> Some(0)]>>)])],
   [ok |-> TRUE, errors |-> FALSE,
    report |-> Some([title |-> Some("Raid"), startTime |-> Some(1000), actors |-> ReportActors,
                     fights |-> Some(<<[id |-> 1, encounterID |-> Some(3009)],
                                       [id |-> 2, encounterID |-> None]>>)])]}

\* raw events of an event query: a named target or source, one known by its
\* actor id only, one known by nothing, and one that carries no fight id
RawEvents ==
  <<[fightID |-> Some(1), timestamp |-> 110000, name |-> Some("Healer"), actorID |-> None],
    [fightID |-> Some(1), timestamp |-> 120000, name |-> None, actorID |-> Some(7)],
    [fightID |-> Some(1), timestamp |-> 130000, name |-> None, actorID |-> Some(8)],
    [fightID |-> None, timestamp |-> 140000, name |-> Some("Healer"), actorID |-> None]>>

EventReplies ==
  {[ok |-> FALSE, errors |-> FALSE, events |-> <<>>],
   [ok |-> TRUE, errors |-> TRUE, events |-> <<>>],
   [ok |-> TRUE, errors |-> FALSE, events |-> <<>>],
   [ok |-> TRUE, errors |-> FALSE, events |-> RawEvents]}

\* how a fetchReport call that throws ends
Thrown(message) == [threw |-> TRUE, message |-> message, payload |-> None]

\* callGraphQL after its fetch: the error it throws, or None when it returns
\* payload.data
callGraphQLError(reply) ==
  IF ~reply.ok THEN Some("GraphQL request failed")
  ELSE IF reply.errors THEN Some("GraphQL error")
  ELSE None

\* the request callGraphQL sends
GraphQLRequest(query, reportId, fightIDs) ==
  [query |-> query, code |-> reportId, fightIDs |-> fightIDs]

\* fights.filter((fight) => (fight.encounterID ?? 0) > 0).map((fight) => fight.id)
bossFightIDsOf(rawFights) ==
  LET boss == SelectSeq(rawFights,
                        LAMBDA fight : (IF fight.encounterID = None THEN 0
                                        ELSE Val(fight.encounterID)) > 0)
  IN [i \in DOMAIN boss |-> boss[i].id]

\* createActorMap(actors).get(id)?.name
ActorName(actors, id) ==
  LET hits == SelectSeq(actors, LAMBDA actor : actor.id = id)
  IN IF hits = <<>> THEN None ELSE hits[Len(hits)].name

\* the name given to the target of a death or to the source of a bloodlust:
\* the event's own name, else the actor's name, else "Unknown"
ResolvedName(event, actors) ==
  IF event.name # None THEN Val(event.name)
  ELSE LET byId == IF event.actorID = None THEN None
                   ELSE ActorName(actors, Val(event.actorID))
       IN IF byId # None THEN Val(byId) ELSE "Unknown"

\* the byFight map of fetchDeathEvents and of fetchBloodlustEvents, as the
\* list of its entries: events with no fight id are skipped
ByFight(events, actors) ==
  LET kept == SelectSeq(events, LAMBDA event : event.fightID # None /\ Val(event.fightID) # 0)
  IN [i \in DOMAIN kept |->
        [fightID |-> Val(kept[i].fightID),
         timestamp |-> kept[i].timestamp,
         name |-> ResolvedName(kept[i], actors)]]

\* map.get(fight.id) ?? []
MapGet(map, id) == SelectSeq(map, LAMBDA event : event.fightID = id)

\* the value fetchReport returns (part_003:251-272)
ReportPayload(report, deathMap, bloodlustMap) ==
  LET rawFights == IF report.fights = None THEN <<>> ELSE Val(report.fights)
  IN [title |-> report.title,
      startTime |-> report.startTime,
      actors |-> [i \in DOMAIN report.actors |->
                    [id |-> report.actors[i].id, name |-> report.actors[i].name]],
      fights |-> [i \in DOMAIN rawFights |->
                    [id |-> rawFights[i].id,
                     encounterID |-> rawFights[i].encounterID,
                     deaths |-> MapGet(deathMap, rawFights[i].id),
                     bloodlusts |-> MapGet(bloodlustMap, rawFights[i].id)]]]

Returned(payload) == [threw |-> FALSE, message |-> "", payload |-> Some(payload)]

\* A mutant of ReportNotFound: a reply with no report object gives an empty
\* payload instead of an error
ReportNotFound_EmptyPayload ==
  Returned([title |-> None, startTime |-> None, actors |-> <<>>, fights |-> <<>>])

\* if (!report) throw new Error("Report not found or inaccessible.")
ReportNotFound == Thrown("Report not found or inaccessible.")

\* fetchReport from its report query on, entered with a token
QueryReport(reportId) ==
  [NoCall EXCEPT !.pc = "report",
                 !.reportId = reportId,
                 !.requests = <<GraphQLRequest("REPORT_QUERY", reportId, <<>>)>>]

\* fetchReport is called: getAccessToken returns the cached token, or asks the
\* OAuth endpoint for one
FetchReportCall(reportId) ==
  /\ fetchCall.pc \in {"idle", "done"}
  /\ fetchCalls < MaxCalls
  /\ fetchCalls' = fetchCalls + 1
  /\ fetchCall' = IF tokenCache # None THEN QueryReport(reportId)
                  ELSE [NoCall EXCEPT !.pc = "token",
                                      !.reportId = reportId,
                                      !.requests = <<[query |-> "OAUTH", code |-> "",
                                                      fightIDs |-> <<>>]>>]
  /\ UNCHANGED <<tokenCache, pureVars, appVars>>

\* the OAuth endpoint answers
TokenResponse(reply) ==
  /\ fetchCall.pc = "token"
  /\ IF ~reply.ok
     THEN /\ fetchCall' = [fetchCall EXCEPT !.pc = "done",
                             !.result = Some(Thrown("Failed to obtain access token"))]
          /\ UNCHANGED tokenCache
     ELSE /\ tokenCache' = Some("token")
          /\ fetchCall' = [QueryReport(fetchCall.reportId) EXCEPT
                             !.requests = fetchCall.requests \o @]
  /\ UNCHANGED <<fetchCalls, pureVars, appVars>>

\* tokenCache.expiresAt passes
TokenExpires ==
  /\ tokenCache # None
  /\ tokenCache' = None
  /\ UNCHANGED <<fetchCall, fetchCalls, pureVars, appVars>>

\* the report query answers: the check for the report object, then
\* fetchDeathEvents, which sends nothing when there is no boss fight, and in
\* that case fetchBloodlustEvents and the return
ReportResponse(reply) ==
  /\ fetchCall.pc = "report"
  /\ LET failure == callGraphQLError(reply)
         report == reply.report
         rawFights == IF Val(report).fights = None THEN <<>> ELSE Val(Val(report).fights)
         bossFightIDs == bossFightIDsOf(rawFights)
     IN fetchCall' =
          IF failure # None
          THEN [fetchCall EXCEPT !.pc = "done", !.result = Some(Thrown(Val(failure)))]
          ELSE IF report = None
          THEN [fetchCall EXCEPT !.pc = "done",
                                 !.data = Some([report |-> report]),
                                 !.result = Some(ReportNotFound)]
          ELSE IF bossFightIDs = <<>>
          THEN [fetchCall EXCEPT !.pc = "done",
                                 !.data = Some([report |-> report]),
                                 !.report = report,
                                 !.result = Some(Returned(ReportPayload(Val(report), <<>>, <<>>)))]
          ELSE [fetchCall EXCEPT !.pc = "deaths",
                                 !.data = Some([report |-> report]),
                                 !.report = report,
                                 !.requests = @ \o <<GraphQLRequest("DEATH_EVENTS_QUERY",
                                                                    fetchCall.reportId,
                                                                    bossFightIDs)>>]
  /\ UNCHANGED <<tokenCache, fetchCalls, pureVars, appVars>>

\* the death-event query answers; fetchBloodlustEvents sends its query
DeathResponse(reply) ==
  /\ fetchCall.pc = "deaths"
  /\ LET failure == callGraphQLError(reply)
         report == Val(fetchCall.report)
     IN fetchCall' =
          IF failure # None
          THEN [fetchCall EXCEPT !.pc = "done", !.result = Some(Thrown(Val(failure)))]
          ELSE [fetchCall EXCEPT !.pc = "bloodlusts",
                                 !.deathMap = ByFight(reply.events, report.actors),
                                 !.requests = @ \o <<GraphQLRequest("BLOODLUST_EVENTS_QUERY",
                                                                    fetchCall.reportId,
                                                                    bossFightIDsOf(Val(report.fights)))>>]
  /\ UNCHANGED <<tokenCache, fetchCalls, pureVars, appVars>>

\* the bloodlust query answers; fetchReport returns
BloodlustResponse(reply) ==
  /\ fetchCall.pc = "bloodlusts"
  /\ LET failure == callGraphQLError(reply)
         report == Val(fetchCall.report)
         bloodlustMap == ByFight(reply.events, report.actors)
     IN fetchCall' =
          IF failure # None
          THEN [fetchCall EXCEPT !.pc = "done", !.result = Some(Thrown(Val(failure)))]
          ELSE [fetchCall EXCEPT !.pc = "done",
                                 !.bloodlustMap = bloodlustMap,
                                 !.result = Some(Returned(ReportPayload(report, fetchCall.deathMap,
                                                                        bloodlustMap)))]
  /\ UNCHANGED <<tokenCache, fetchCalls, pureVars, appVars>>

\* the server as started: no call, no token
InitServer ==
  /\ AppInitial
  /\ TimeIdle
  /\ AbilityIdle
  /\ ServerIdle
  /\ inFights = <<>>
  /\ inAnchor = 0
  /\ outRows = None
  /\ inEntries = <<>>
  /\ outOptions = None

NextServer ==
  \/ \E reportId \in ReportIds : FetchReportCall(reportId)
  \/ \E reply \in TokenReplies : TokenResponse(reply)
  \/ TokenExpires
  \/ \E reply \in ReportReplies : ReportResponse(reply)
  \/ \E reply \in EventReplies : DeathResponse(reply)
  \/ \E reply \in EventReplies : BloodlustResponse(reply)

SpecServer == InitServer /\ [][NextServer]_vars

-----------------------------------------------------------------------------
(* Properties of parseHhmmss and formatHhmmss                              *)

Converted == outTime # None

AllDigits(str) == str # <<>> /\ \A i \in DOMAIN str : IsDigit(str[i])

\* a field that is written as a number: digits, with an optional minus sign
NumericField(str) ==
  \/ AllDigits(str)
  \/ Len(str) > 1 /\ str[1] = "-" /\ AllDigits(Tail(str))

\* the colon-separated fields of the text as written
FieldsOf(str) == SplitColon(str)

\* exactly three numeric fields, hours >= 0, minutes and seconds in 0..59
WellFormed(str) ==
  /\ Len(FieldsOf(str)) = 3
  /\ \A i \in 1..3 : NumericField(FieldsOf(str)[i])
  /\ NumberOf(FieldsOf(str)[1]).v >= 0
  /\ \A i \in 2..3 : NumberOf(FieldsOf(str)[i]).v \in 0..59

\* a valid zero-padded HH:MM:SS text: two digits for the minutes and for the
\* seconds, two digits or more for the hours with no zero before a third digit
ZeroPadded(str) ==
  /\ WellFormed(str)
  /\ \A i \in 1..3 : AllDigits(FieldsOf(str)[i])
  /\ \A i \in 2..3 : Len(FieldsOf(str)[i]) = 2
  /\ Len(FieldsOf(str)[1]) >= 2
  /\ Len(FieldsOf(str)[1]) > 2 => FieldsOf(str)[1][1] # "0"

\* C17: parseHhmmss(formatHhmmss(n)) = n for every non-negative whole number of
\* seconds n, 100 hours and more included, and formatHhmmss(parseHhmmss(s)) = s
\* for every valid zero-padded HH:MM:SS text s.
C17_RoundTrip ==
  Converted =>
    /\ ~Val(outTime).reparsed.threw
    /\ Val(outTime).reparsed.value = inSeconds
    /\ ZeroPadded(inText) =>
         /\ ~Val(outTime).parsed.threw
         /\ Val(outTime).reformatted = inText

\* C17 witness: 100:59:09 formatted from 363549 seconds and parsed back, and
\* 00:00:00 parsed and formatted back
C17_Witness ==
  /\ Converted
  /\ inSeconds = 363549
  /\ Val(outTime).formatted = <<"1", "0", "0", ":", "5", "9", ":", "0", "9">>
  /\ Val(outTime).reparsed.value = 363549
  /\ inText = DefaultFirstPull
  /\ Val(outTime).reformatted = DefaultFirstPull

\* C18: parseHhmmss throws for every text that is not exactly three
\* colon-separated numeric fields with hours >= 0 and minutes and seconds in
\* 0..59: an empty or blank field, two or four fields, a field out of range.
C18_ParseIsStrict ==
  Converted /\ ~WellFormed(inText) => Val(outTime).parsed.threw

-----------------------------------------------------------------------------
(* Properties of the server's fetchReport                                  *)

\* the positions in the call's request list of its death and bloodlust queries
EventRequests ==
  {i \in DOMAIN fetchCall.requests :
     fetchCall.requests[i].query \in {"DEATH_EVENTS_QUERY", "BLOODLUST_EVENTS_QUERY"}}

\* the report query has returned data with no report object
NoReportObject == fetchCall.data # None /\ Val(fetchCall.data).report = None

\* C19: when the report query returns no report object, fetchReport fails with
\* an error, has sent no death-event and no bloodlust-event query and returns
\* no payload; a death-event or bloodlust-event query is sent only after the
\* report query of the call, and only when that query returned a report.
C19_NoReportFailsBeforeEvents ==
  /\ NoReportObject =>
       /\ fetchCall.pc = "done"
       /\ Val(fetchCall.result).threw
       /\ Val(fetchCall.result).payload = None
       /\ EventRequests = {}
  /\ \A i \in EventRequests :
       /\ \E j \in 1..(i - 1) : fetchCall.requests[j].query = "REPORT_QUERY"
       /\ fetchCall.data # None
       /\ Val(fetchCall.data).report # None

\* C19 witness: a second call, made with the cached token, whose report query
\* came back without a report object: it has failed after that one request
C19_Witness ==
  /\ NoReportObject
  /\ fetchCalls = 2
  /\ fetchCall.result = Some(Thrown("Report not found or inaccessible."))
  /\ Len(fetchCall.requests) = 1
  /\ fetchCall.requests[1].query = "REPORT_QUERY"

-----------------------------------------------------------------------------
(* src/unnamed/part_003: fetchAbilitySummary (494-515) with                *)
(* normalizeAbilitySummary (517-537) and asNumber (951-962), after the     *)
(* table query has answered. An entry of the table carries its counts      *)
(* under the first names the code looks for (totalUses, then casts;        *)
(* maxPossibleUses); the icon of an ability is left out.                   *)

\* how many entries the table has at most
MaxAbilities == 2

AbilityEntryPool ==
  {[guid |-> Some(17), name |-> Some("Barkskin"), totalUses |-> t, casts |-> c,
    maxPossibleUses |-> m] :
     t \in {None, Some(0), Some(3), Some(7)}, c \in {None, Some(2)},
     m \in {None, Some(0), Some(5)}}

\* the entries get the ability ids 1, 2, ... in table order
WithGuids(s) == [i \in DOMAIN s |-> [s[i] EXCEPT !.guid = Some(i)]]

AbilityInputs(maxAbilities) ==
  {[fightIDs |-> f, entries |-> WithGuids(es)] :
     f \in {<<>>, <<1>>}, es \in SeqsUpTo(AbilityEntryPool, maxAbilities)}

\* asNumber(value ?? 0) for a count that is a number or is missing
asNumber(value) == IF value # None THEN Val(value) ELSE 0

\* normalizeAbilitySummary (part_003:517-537)
normalizeAbilitySummary(entry) ==
  [id |-> entry.guid,
   name |-> IF entry.name # None THEN Val(entry.name)
            ELSE IF entry.guid # None THEN "Ability " \o ToString(Val(entry.guid))
            ELSE "Ability",
   uses |-> asNumber(IF entry.totalUses # None THEN entry.totalUses ELSE entry.casts),
   possible |-> asNumber(entry.maxPossibleUses)]

\* obj.key of JavaScript: undefined (None) for a property the object lacks
Prop(obj, key) == IF key \in DOMAIN obj THEN Some(obj[key]) ELSE None

\* value > 0 of JavaScript, false for undefined
Positive(value) == value # None /\ Val(value) > 0

\* the test of the filter (part_003:513)
AbilityKept(ability) ==
  Positive(Prop(ability, "totalUses")) \/ Positive(Prop(ability, "maxPossibleUses"))

\* the comparator of the sort, b.totalUses - a.totalUses (part_003:514); the
\* difference of two undefined values is NaN, which sort takes for 0
AbilityCompare(a, b) ==
  IF Prop(a, "totalUses") # None /\ Prop(b, "totalUses") # None
  THEN b.totalUses - a.totalUses ELSE 0

\* e placed into the sorted sequence s after every element that does not come
\* after it by the comparator
RECURSIVE InsertAbility(_, _)
InsertAbility(s, e) ==
  IF s = <<>> THEN <<e>>
  ELSE IF AbilityCompare(s[Len(s)], e) <= 0 THEN Append(s, e)
  ELSE Append(InsertAbility(SubSeq(s, 1, Len(s) - 1), e), s[Len(s)])

\* Array.prototype.sort with the comparator, stable
RECURSIVE SortAbilities(_)
SortAbilities(s) ==
  IF s = <<>> THEN <<>>
  ELSE InsertAbility(SortAbilities(SubSeq(s, 1, Len(s) - 1)), s[Len(s)])

\* fetchAbilitySummary (part_003:494-515)
fetchAbilitySummary(fightIDs, entries) ==
  IF fightIDs = <<>> THEN <<>>
  ELSE LET normalized == [i \in DOMAIN entries |-> normalizeAbilitySummary(entries[i])]
       IN SortAbilities(SelectSeqIdx(normalized,
                                     {i \in DOMAIN normalized : AbilityKept(normalized[i])}))

InitAbilities ==
  /\ AppInitial
  /\ TimeIdle
  /\ ServerIdle
  /\ inTable \in AbilityInputs(MaxAbilities)
  /\ outAbilities = None
  /\ inFights = <<>>
  /\ inAnchor = 0
  /\ outRows = None
  /\ inEntries = <<>>
  /\ outOptions = None

SummarizeAbilities ==
  /\ outAbilities = None
  /\ outAbilities' = Some(fetchAbilitySummary(inTable.fightIDs, inTable.entries))
  /\ UNCHANGED <<inFights, inAnchor, outRows, inEntries, outOptions, timeVars, inTable,
                 appVars, serverVars>>

NextAbilities == SummarizeAbilities

SpecAbilities == InitAbilities /\ [][NextAbilities]_vars

\* the entries of the table that were used or could have been used
UsedEntries ==
  {i \in DOMAIN inTable.entries :
     \/ asNumber(IF inTable.entries[i].totalUses # None THEN inTable.entries[i].totalUses
                 ELSE inTable.entries[i].casts) > 0
     \/ asNumber(inTable.entries[i].maxPossibleUses) > 0}

\* C25: the team-wide ability summary returned by fetchAbilitySummary has one
\* entry for every entry of the ability table whose total uses are > 0 or whose
\* maximum possible uses are > 0, ordered by uses descending.
C25_AbilitySummary ==
  (outAbilities # None /\ inTable.fightIDs # <<>>) =>
    LET abilities == Val(outAbilities)
    IN /\ Len(abilities) = Cardinality(UsedEntries)
       /\ \A i \in UsedEntries : \E k \in DOMAIN abilities : abilities[k].id = Some(i)
       /\ \A k \in 1..(Len(abilities) - 1) : abilities[k].uses >= abilities[k + 1].uses

====
